---- MODULE Spec2Model ----
(***************************************************************************)
(* A model of the llm-eval-monitoring repository: the storage layer        *)
(* (database.py, repository.py, models.py), the POST /evaluate/ handler,   *)
(* the evaluator registry and evaluators, the configuration loader and     *)
(* the inference model router.                                             *)
(*                                                                         *)
(* The repository is a set of entry points that run as separate pieces of  *)
(* code.  The variable `entry` says which one a behaviour exercises; the   *)
(* variables of the other entry points keep their initial values.          *)
(*                                                                         *)
(* "Raises" means raising an instance of Exception, which is what every    *)
(* `except Exception` of the source catches.                               *)
(***************************************************************************)
EXTENDS Integers, Sequences, FiniteSets, TLC

\* ------------------------------------------------------------------ bounds
\* Repository writes made by the body of one get_session() scope.
MaxBodyOps == 3

\* get_session() scopes run one after the other by one piece of code.
MaxScopes == 2

\* The largest inference.max_retries a router is configured with.
MaxRetries == 3

\* get_config calls made by one process.
MaxLoads == 3

\* Threads that call get_database(), and calls made by each.
MaxThreads == 2
MaxCallsPerThread == 2

\* Whitespace-separated tokens of a response and of a ground truth.
MaxTokens == 2
MaxGroundTruthTokens == 1

\* Measurements in one latencies_ms list.
MaxSamples == 3

\* Categories a ToxicityEvaluator is configured with, and outputs of its model.
MaxCategories == 3

\* The largest repeats measure_latency_ms is called with.
MaxRepeats == 4

\* Characters in a judge's reply.
MaxReplyLen == 3

\* Most GET /health requests of one run.
MaxChecks == 4

\* Records in one dataset file.
MaxRecords == 2

\* ------------------------------------------------------------ common values
\* Python's None.
None == "None"

\* No exception: the code ran to its end.
NoError == "no_error"

\* Exceptions a scope body can raise.
BodyErrors == {"ValueError", "KeyError"}

\* The exception of a failed COMMIT.
CommitError == "OperationalError"

Entries == {"session_scope", "registry", "api", "router", "config_loader",
            "db_singleton", "evaluator", "latency", "toxicity", "measure",
            "batch", "stats", "extract_score", "health", "dashboard"}

VARIABLES
    entry,      \* the entry point this behaviour exercises
    db,         \* the committed tables: what any other session can read
    session,    \* the Session made by SessionLocal() and its open transaction
    scope,      \* the progress of the code that uses get_session()
    config,     \* the `evaluators` section of the loaded configuration
    registry,   \* a call of get_evaluators() and what it gave
    api,        \* one POST /evaluate/ request: handler locals and response
    router,     \* a ModelRouter and its generate() call
    loader,     \* get_config's lru_cache and the loads made so far
    singleton,  \* _db_instance and the threads calling get_database()
    evalrun,    \* one evaluate() call of one evaluator: inputs and result
    latency,    \* one LatencyEvaluator.evaluate() call: inputs and result
    toxicity,   \* one ToxicityEvaluator.evaluate() call: inputs and result
    measure,    \* one measure_latency_ms() call and its loop
    batch,       \* one run of the batch runner's main()
    statrun,    \* one calculate_stats() call: the sample and the statistics
    scorerun,    \* one _extract_score() call: the reply and the score
    health,      \* the GET /health handler
    dash        \* the dashboard script and its page

vars == <<entry, db, session, scope, config, registry, api, router, loader,
          singleton, evalrun, latency, toxicity, measure, batch, statrun,
          scorerun, health, dash>>

\* What the actions of each entry point leave alone (besides the variables
\* they name themselves).
OutsideScope == <<entry, config, registry, api, router, loader, singleton,
                  evalrun, latency, toxicity, measure, batch, statrun,
                  scorerun, health, dash>>
OutsideRegistry == <<entry, config, router, loader, singleton, evalrun,
                     latency, toxicity, measure, batch, statrun, scorerun,
                     health, dash>>
OutsideApi == <<entry, scope, config, registry, router, loader, singleton,
                evalrun, latency, toxicity, measure, batch, statrun, scorerun,
                health, dash>>
OutsideRouter == <<entry, db, session, scope, config, registry, api, loader,
                   singleton, evalrun, latency, toxicity, measure, batch,
                   statrun, scorerun, health, dash>>
OutsideLoader == <<entry, db, session, scope, config, registry, api, router,
                   singleton, evalrun, latency, toxicity, measure, batch,
                   statrun, scorerun, health, dash>>
OutsideSingleton == <<entry, db, session, scope, config, registry, api,
                      router, loader, evalrun, latency, toxicity, measure,
                      batch, statrun, scorerun, health, dash>>
OutsideEvaluator == <<entry, db, session, scope, config, registry, api,
                      router, loader, singleton, latency, toxicity, measure,
                      batch, statrun, scorerun, health, dash>>
OutsideLatency == <<entry, db, session, scope, config, registry, api, router,
                    loader, singleton, evalrun, toxicity, measure, batch,
                    statrun, scorerun, health, dash>>
OutsideToxicity == <<entry, db, session, scope, config, registry, api, router,
                     loader, singleton, evalrun, latency, measure, batch,
                     statrun, scorerun, health, dash>>
OutsideMeasure == <<entry, db, session, scope, config, registry, api, router,
                    loader, singleton, evalrun, latency, toxicity, batch,
                    statrun, scorerun, health, dash>>
OutsideStats == <<entry, db, session, scope, config, registry, api, router,
                  loader, singleton, evalrun, latency, toxicity, measure,
                  batch, scorerun, health, dash>>
OutsideHealth == <<entry, scope, config, registry, api, router, loader,
                   singleton, evalrun, latency, toxicity, measure, batch,
                   statrun, scorerun, dash>>
OutsideDashboard == <<entry, scope, config, registry, api, router, loader,
                      singleton, evalrun, latency, toxicity, measure, batch,
                      statrun, scorerun, health>>
OutsideJudge == <<entry, db, session, scope, config, registry, api, router,
                  loader, singleton, evalrun, latency, toxicity, measure,
                  batch, statrun, health, dash>>
OutsideBatch == <<entry, scope, config, registry, api, router, loader,
                  singleton, evalrun, latency, toxicity, measure, statrun,
                  scorerun, health, dash>>

\* ------------------------------------------------------------ storage layer
\* The tables of models.py, empty, with their primary-key sequences.
EmptyDb == [evaluations |-> {}, metrics |-> {}, eval_seq |-> 0, metric_seq |-> 0]

\* No session has been made yet.
NoSession == [state |-> "none", new_evaluations |-> {}, new_metrics |-> {},
              calls |-> <<>>]

\* session = self.SessionLocal(): a session with an empty transaction.
SessionLocal == [NoSession EXCEPT !.state = "open"]

\* Evaluation(**eval_data): 'metadata' is not a mapped column (the column is
\* meta_data), so the keyword only sets a plain attribute and the column
\* stays NULL.
EvaluationRow(id, metadata) == [id |-> id, meta_data |-> "NULL"]

\* A Metric row that loses the value it was given.
MetricRowValueDropped(id, eval_id, metric_type, value, metadata) ==
    [id |-> id, evaluation_id |-> eval_id, metric_type |-> metric_type,
     value |-> [num |-> 0 - 1, den |-> 1], meta_data |-> "NULL"]

\* Metric(evaluation_id=..., metric_type=..., value=..., metadata=...): as for
\* Evaluation, the meta_data column is never assigned.
MetricRow(id, eval_id, metric_type, value, metadata) ==
    [id |-> id, evaluation_id |-> eval_id, metric_type |-> metric_type,
     value |-> value, meta_data |-> "NULL"]

\* A create_evaluation that hands out an id without adding the row to the
\* session.
CreateEvaluationUnadded(d, s, metadata) ==
    [db |-> [d EXCEPT !.eval_seq = @ + 1], session |-> s, id |-> d.eval_seq + 1]

\* EvaluationRepository.create_evaluation: add + flush; the row gets its id
\* and lives in the session's transaction, not yet in the committed tables.
CreateEvaluation(d, s, metadata) ==
    LET id == d.eval_seq + 1
    IN  [db |-> [d EXCEPT !.eval_seq = id],
         session |-> [s EXCEPT !.new_evaluations = @ \cup {EvaluationRow(id, metadata)}],
         id |-> id]

\* An add_metric that commits each row as soon as it is added.
AddMetricAutocommit(d, s, eval_id, metric_type, value, metadata) ==
    LET id == d.metric_seq + 1
    IN  [db |-> [d EXCEPT !.metric_seq = id,
                          !.metrics = @ \cup {MetricRow(id, eval_id, metric_type,
                                                        value, metadata)}],
         session |-> s,
         id |-> id]

\* EvaluationRepository.add_metric: add + flush, no commit.
AddMetric(d, s, eval_id, metric_type, value, metadata) ==
    LET id == d.metric_seq + 1
    IN  [db |-> [d EXCEPT !.metric_seq = id],
         session |-> [s EXCEPT !.new_metrics =
                         @ \cup {MetricRow(id, eval_id, metric_type, value, metadata)}],
         id |-> id]

\* session.commit() succeeding: the transaction's rows become committed rows.
SessionCommit(d, s) ==
    [db |-> [d EXCEPT !.evaluations = @ \cup s.new_evaluations,
                      !.metrics = @ \cup s.new_metrics],
     session |-> [s EXCEPT !.new_evaluations = {}, !.new_metrics = {},
                           !.calls = Append(@, "commit")]]

\* session.commit() raising: nothing is committed and the transaction stays
\* as it was until it is rolled back.
SessionCommitFails(d, s) ==
    [db |-> d, session |-> [s EXCEPT !.calls = Append(@, "commit_failed")]]

\* A rollback that writes the transaction's rows instead of discarding them.
SessionRollbackKeepsRows(d, s) ==
    [db |-> [d EXCEPT !.evaluations = @ \cup s.new_evaluations,
                      !.metrics = @ \cup s.new_metrics],
     session |-> [s EXCEPT !.new_evaluations = {}, !.new_metrics = {},
                           !.calls = Append(@, "rollback")]]

\* session.rollback(): the transaction's rows are discarded.
SessionRollback(d, s) ==
    [db |-> d,
     session |-> [s EXCEPT !.new_evaluations = {}, !.new_metrics = {},
                           !.calls = Append(@, "rollback")]]

\* session.close(): releases the connection; a transaction still open is
\* discarded, never committed.
SessionClose(d, s) ==
    [db |-> d,
     session |-> [s EXCEPT !.state = "closed", !.new_evaluations = {},
                           !.new_metrics = {}, !.calls = Append(@, "close")]]

\* The try block of get_session after the yield: nothing if the body raised,
\* else session.commit().  `raised` is the exception now in flight.
GetSessionTry(d, s, bodyErr, commitFails) ==
    IF bodyErr # NoError
    THEN [db |-> d, session |-> s, raised |-> bodyErr]
    ELSE IF commitFails
         THEN SessionCommitFails(d, s) @@ [raised |-> CommitError]
         ELSE SessionCommit(d, s) @@ [raised |-> NoError]

\* An except block that rolls back and swallows the exception.
GetSessionExceptSwallows(d, s, raised) ==
    IF raised # NoError
    THEN SessionRollback(d, s) @@ [raised |-> NoError]
    ELSE [db |-> d, session |-> s, raised |-> raised]

\* except Exception: session.rollback(); raise
GetSessionExcept(d, s, raised) ==
    IF raised # NoError
    THEN SessionRollback(d, s) @@ [raised |-> raised]
    ELSE [db |-> d, session |-> s, raised |-> raised]

\* finally: session.close()
GetSessionFinally(d, s, raised) ==
    SessionClose(d, s) @@ [raised |-> raised]

\* Database.get_session from the point where the with-body ends: bodyErr is
\* the exception the body raised (NoError if it completed), commitFails says
\* whether the scope's commit raises.
GetSessionExit(d, s, bodyErr, commitFails) ==
    LET t == GetSessionTry(d, s, bodyErr, commitFails)
        e == GetSessionExcept(t.db, t.session, t.raised)
    IN  GetSessionFinally(e.db, e.session, e.raised)

\* --------------------------------------------- entry: a get_session() scope
\* Code that uses `with db.get_session() as session:` and the repository, as
\* the health check, the batch runner, the dashboard and the API's session
\* dependency do.
ScopeIdle == [pc |-> "idle", n |-> 0, ops |-> 0, eval_ids |-> {}, added |-> {},
              db_at_enter |-> EmptyDb, body_err |-> NoError,
              raised |-> NoError]

\* with db.get_session() as session: a new session for every scope.
ScopeEnter ==
    /\ entry = "session_scope"
    /\ scope.pc \in {"idle", "exited"}
    /\ scope.n < MaxScopes
    /\ session' = SessionLocal
    /\ scope' = [ScopeIdle EXCEPT !.pc = "body", !.n = scope.n + 1,
                                  !.db_at_enter = db]
    /\ UNCHANGED <<db, OutsideScope>>

\* The body calls repo.create_evaluation(...).
BodyCreateEvaluation ==
    /\ entry = "session_scope"
    /\ scope.pc = "body"
    /\ scope.ops < MaxBodyOps
    /\ LET r == CreateEvaluation(db, session, "{}")
       IN  /\ db' = r.db
           /\ session' = r.session
           /\ scope' = [scope EXCEPT !.ops = @ + 1, !.eval_ids = @ \cup {r.id}]
    /\ UNCHANGED OutsideScope

\* The body calls repo.add_metric(...) for an evaluation it knows.
BodyAddMetric ==
    /\ entry = "session_scope"
    /\ scope.pc = "body"
    /\ scope.ops < MaxBodyOps
    /\ \E eval_id \in scope.eval_ids, metric_type \in {"latency", "toxicity"} :
         LET r == AddMetric(db, session, eval_id, metric_type, 0, "{}")
         IN  /\ db' = r.db
             /\ session' = r.session
             /\ scope' = [scope EXCEPT !.ops = @ + 1, !.added = @ \cup {r.id}]
    /\ UNCHANGED OutsideScope

\* The body calls session.commit() itself, as the API handler and the batch
\* runner do before the scope ends.
BodyCommit ==
    /\ entry = "session_scope"
    /\ scope.pc = "body"
    /\ scope.ops < MaxBodyOps
    /\ session.new_evaluations \cup session.new_metrics # {}
    /\ LET r == SessionCommit(db, session)
       IN  /\ db' = r.db
           /\ session' = r.session
    /\ scope' = [scope EXCEPT !.ops = @ + 1]
    /\ UNCHANGED OutsideScope

\* The body ends, normally or by raising; get_session runs to its end.
ScopeExit ==
    /\ entry = "session_scope"
    /\ scope.pc = "body"
    /\ \E bodyErr \in BodyErrors \cup {NoError}, commitFails \in BOOLEAN :
         LET r == GetSessionExit(db, session, bodyErr, commitFails)
         IN  /\ db' = r.db
             /\ session' = r.session
             /\ scope' = [scope EXCEPT !.pc = "exited", !.body_err = bodyErr,
                                       !.raised = r.raised]
    /\ UNCHANGED OutsideScope

NextSessionScope ==
    \/ ScopeEnter
    \/ BodyCreateEvaluation
    \/ BodyAddMetric
    \/ BodyCommit
    \/ ScopeExit

\* How many times the session method `call` was called.
CallCount(calls, call) == Cardinality({i \in DOMAIN calls : calls[i] = call})

\* C3: every use of get_session() ends in one of two ways: the body completed
\* and the session was committed, with no error for the caller; or the body
\* or the commit raised, the session was rolled back and that same error
\* reached the caller.  Either way the session was closed exactly once, as
\* the last call, right after the commit or the rollback.
C3_CommitOrRollbackThenClose ==
    scope.pc = "exited" =>
        LET c == session.calls
            n == Len(c)
        IN  /\ session.state = "closed"
            /\ n >= 2
            /\ c[n] = "close"
            /\ CallCount(c, "close") = 1
            /\ \/ /\ scope.body_err = NoError
                  /\ scope.raised = NoError
                  /\ c[n - 1] = "commit"
                  /\ CallCount(c, "rollback") = 0
                  /\ CallCount(c, "commit_failed") = 0
               \/ /\ scope.body_err # NoError
                  /\ scope.raised = scope.body_err
                  /\ c[n - 1] = "rollback"
                  /\ CallCount(c, "rollback") = 1
                  /\ CallCount(c, "commit_failed") = 0
               \/ /\ scope.body_err = NoError
                  /\ scope.raised = CommitError
                  /\ n >= 3
                  /\ c[n - 2] = "commit_failed"
                  /\ c[n - 1] = "rollback"
                  /\ CallCount(c, "rollback") = 1

\* C3 witness: a scope whose body completed and whose commit raised.
C3_Witness_CommitRaised ==
    /\ scope.pc = "exited"
    /\ scope.body_err = NoError
    /\ scope.raised = CommitError
    /\ scope.added # {}

\* The scope's session was never committed by the body itself.
NoExplicitCommit == CallCount(session.calls, "commit") = 0

\* C4: a scope that added a Metric row through the repository, did not
\* commit by itself and then raised leaves the stored rows exactly as they
\* were when the scope was entered: none of its rows is persisted.
C4_RaisingScopePersistsNothing ==
    (/\ scope.pc = "exited"
     /\ scope.body_err # NoError
     /\ scope.added # {}
     /\ NoExplicitCommit)
    => /\ db.metrics = scope.db_at_enter.metrics
       /\ db.evaluations = scope.db_at_enter.evaluations
       /\ \A m \in db.metrics : m.id \notin scope.added

\* C4 witness: such a scope, entered when rows were already stored.
C4_Witness_RaisedAfterAddMetric ==
    /\ scope.pc = "exited"
    /\ scope.body_err # NoError
    /\ scope.added # {}
    /\ NoExplicitCommit
    /\ scope.db_at_enter.metrics # {}



\* The committed rows the current scope created.
ScopeEvaluationRows == {e \in db.evaluations : e.id \in scope.eval_ids}

ScopeMetricRows == {m \in db.metrics : m.id \in scope.added}

\* C27: the metadata mapping given to create_evaluation and add_metric is
\* what the committed row holds in its metadata column.
C27_MetadataStoredOnRow ==
    /\ \A e \in ScopeEvaluationRows : e.meta_data = "{}"
    /\ \A m \in ScopeMetricRows : m.meta_data = "{}"
\* ------------------------------------------------------ evaluator registry
\* The evaluators get_evaluators() can build, in the order it builds them.
ConfigurableEvaluators == <<"latency", "toxicity", "factuality">>

RegistryOrder == <<"latency", "toxicity", "factuality", "ioc_extraction">>

\* What config.evaluators can hold for one evaluator (Dict[str, Any]): no key;
\* a key with a null value (a YAML section with nothing under it); a mapping
\* without 'enabled'; a mapping with enabled: true; one with enabled: false.
SectionValues == {"absent", "null", "no_flag", "enabled_true", "enabled_false"}

Configs == [{"latency", "toxicity", "factuality"} -> SectionValues]

\* config.evaluators of a configuration file without an evaluators section.
DefaultConfig == [n \in {"latency", "toxicity", "factuality"} |-> "absent"]

\* eval_config.get(name, {}): the default {} only replaces a missing key.
SectionGet(cfg, name) == IF cfg[name] = "absent" THEN "no_flag" ELSE cfg[name]

\* <section>.get('enabled', True), for a section that is a mapping.
EnabledFlag(section) == section # "enabled_false"

\* if eval_config.get(name, {}).get('enabled', True): evaluators.append(...)
\* None has no .get: a null section raises AttributeError.
RegistryStep(acc, cfg, name) ==
    IF acc.raised # NoError THEN acc
    ELSE IF SectionGet(cfg, name) = "null"
         THEN [acc EXCEPT !.raised = "AttributeError"]
         ELSE IF EnabledFlag(SectionGet(cfg, name))
              THEN [acc EXCEPT !.evaluators = Append(@, name)]
              ELSE acc

\* A registry in which the IOC extractor is left out.
GetEvaluatorsWithoutIoc(cfg) ==
    LET a0 == [raised |-> NoError, evaluators |-> <<>>]
        a1 == RegistryStep(a0, cfg, "latency")
        a2 == RegistryStep(a1, cfg, "toxicity")
        a3 == RegistryStep(a2, cfg, "factuality")
    IN  IF a3.raised # NoError
        THEN [raised |-> a3.raised, evaluators |-> <<>>]
        ELSE a3

\* get_evaluators(): the three configurable evaluators in order, then the
\* IOC extractor unconditionally.  `raised` is the exception that left it.
GetEvaluators(cfg) ==
    LET a0 == [raised |-> NoError, evaluators |-> <<>>]
        a1 == RegistryStep(a0, cfg, "latency")
        a2 == RegistryStep(a1, cfg, "toxicity")
        a3 == RegistryStep(a2, cfg, "factuality")
    IN  IF a3.raised # NoError
        THEN [raised |-> a3.raised, evaluators |-> <<>>]
        ELSE [a3 EXCEPT !.evaluators = Append(@, "ioc_extraction")]

\* ------------------------------------------- entry: a get_evaluators() call
RegistryIdle == [pc |-> "idle", raised |-> NoError, evaluators |-> <<>>]

CallGetEvaluators ==
    /\ entry = "registry"
    /\ registry.pc = "idle"
    /\ registry' = GetEvaluators(config) @@ [pc |-> "returned"]
    /\ UNCHANGED <<db, session, scope, api, OutsideRegistry>>

NextRegistry == CallGetEvaluators

\* s is a subsequence of t (both without repeated elements).
IsSubsequence(s, t) ==
    /\ \A i \in DOMAIN s : \E j \in DOMAIN t : s[i] = t[j]
    /\ \A i, j \in DOMAIN s :
         i < j => \A k, l \in DOMAIN t : (s[i] = t[k] /\ s[j] = t[l]) => k < l

InSeq(x, s) == \E i \in DOMAIN s : s[i] = x

\* The 'enabled' flag of an evaluator is true or absent: there is no section,
\* a section with nothing in it, or a section that does not say enabled: false.
EnabledOrAbsent(cfg, name) == cfg[name] # "enabled_false"

\* What the claim says of the list get_evaluators() gave.
RegistryContract(cfg, r) ==
    /\ r.raised = NoError
    /\ IsSubsequence(r.evaluators, RegistryOrder)
    /\ \A i \in DOMAIN ConfigurableEvaluators :
         InSeq(ConfigurableEvaluators[i], r.evaluators)
            <=> EnabledOrAbsent(cfg, ConfigurableEvaluators[i])
    /\ Len(r.evaluators) >= 1
    /\ r.evaluators[Len(r.evaluators)] = "ioc_extraction"

\* C8 (as claimed): for every configuration of the evaluators section,
\* get_evaluators() returns a subsequence of latency, toxicity, factuality,
\* ioc_extraction holding each of the first three exactly when its flag is
\* true or absent, and ending with the IOC extractor.
C8_RegistryForEveryConfig ==
    registry.pc = "returned" => RegistryContract(config, registry)

\* --------------------------------------------------- inference model router
\* inference.provider: the deterministic offline provider or the HTTP one.
ProviderNames == {"mock", "openai"}

\* What OpenAIHTTPProvider.generate raises: requests' timeout, or the
\* RuntimeError of an HTTP status >= 400.
ProviderErrors == {"Timeout", "RuntimeError"}

\* The ways the k-th provider call can end.  MockProvider builds its text from
\* its arguments and cannot raise.
ProviderOutcomes(provider_name, k) ==
    {[ok |-> TRUE, provider |-> provider_name, call |-> k, error |-> NoError]}
    \cup (IF provider_name = "mock" THEN {}
          ELSE {[ok |-> FALSE, provider |-> provider_name, call |-> k, error |-> e] :
                   e \in ProviderErrors})

NoOutcome == [ok |-> FALSE, provider |-> "none", call |-> 0, error |-> NoError]

RouterIdle ==
    [pc |-> "idle", provider_name |-> "mock", max_retries |-> 0,
     attempt |-> 1,             \* the loop variable of generate()
     calls |-> <<>>,            \* how each provider call ended
     last_err |-> NoOutcome,
     returned |-> NoOutcome,    \* the ModelResponse generate() returned
     raised |-> NoOutcome]      \* the exception generate() raised

\* A retry loop that counts max_retries as the number of tries.
LastAttemptOneShort(max_retries) == max_retries

\* range(1, self.max_retries + 2): the number of the last attempt.
LastAttempt(max_retries) == max_retries + 1

\* model_name = model or self.default_model; last_err = None
RouterGenerate ==
    /\ entry = "router"
    /\ router.pc = "idle"
    /\ router' = [router EXCEPT !.pc = "loop", !.attempt = 1, !.last_err = NoOutcome]
    /\ UNCHANGED OutsideRouter

\* One iteration: try: return self._provider.generate(...)
\*                except Exception as e: last_err = e
RouterAttempt ==
    /\ entry = "router"
    /\ router.pc = "loop"
    /\ router.attempt <= LastAttempt(router.max_retries)
    /\ \E o \in ProviderOutcomes(router.provider_name, Len(router.calls) + 1) :
         router' = IF o.ok
                     THEN [router EXCEPT !.pc = "returned", !.returned = o,
                                         !.calls = Append(@, o)]
                     ELSE [router EXCEPT !.attempt = @ + 1, !.last_err = o,
                                         !.calls = Append(@, o)]
    /\ UNCHANGED OutsideRouter

\* After the loop: assert last_err is not None; raise last_err
RouterExhausted ==
    /\ entry = "router"
    /\ router.pc = "loop"
    /\ router.attempt > LastAttempt(router.max_retries)
    /\ router' = [router EXCEPT !.pc = "raised",
                    !.raised = IF router.last_err = NoOutcome
                                 THEN [NoOutcome EXCEPT !.error = "AssertionError"]
                                 ELSE router.last_err]
    /\ UNCHANGED OutsideRouter

NextRouter ==
    \/ RouterGenerate
    \/ RouterAttempt
    \/ RouterExhausted

\* C5: generate() with max_retries = n calls the provider at most n + 1
\* times; it returns the result of the first successful call, which is the
\* last call made; when every call fails it makes exactly n + 1 calls and
\* raises the exception of the last one; what it returns always comes from
\* the configured provider.
C5_RetryBudget ==
    LET c == router.calls
        n == router.max_retries
    IN  /\ Len(c) <= n + 1
        /\ \A i \in DOMAIN c : c[i].ok => i = Len(c)
        /\ router.pc = "returned" =>
             /\ Len(c) >= 1
             /\ c[Len(c)].ok
             /\ router.returned = c[Len(c)]
             /\ router.returned.provider = router.provider_name
        /\ router.pc = "raised" =>
             /\ Len(c) = n + 1
             /\ \A i \in DOMAIN c : ~c[i].ok
             /\ router.raised = c[n + 1]
        /\ (router.pc = "loop" /\ Len(c) = n + 1 /\ \A i \in DOMAIN c : ~c[i].ok)
             => router.attempt > LastAttempt(n)

\* C5 witness: max_retries = 2, three failed attempts, the third error raised.
C5_Witness_ThreeAttempts ==
    /\ router.pc = "raised"
    /\ router.max_retries = 2
    /\ Len(router.calls) = 3
    /\ router.raised = router.calls[3]
    /\ ~router.raised.ok

\* ------------------------------------------------------ configuration loader
\* Environment names with a file configs/<env>.yaml, and one without.
EnvNames == {"dev", "test", "prod"}
ExistingConfigFiles == {"dev", "test"}

\* APP_ENV: unset, or an environment name.
AppEnvValues == {"unset"} \cup EnvNames

\* The argument lists get_config is called with: get_config() as Database
\* and get_evaluators call it, get_config(None) as get_database_url and
\* get_database_config call it with their default, get_config("<env>").
CallForms == {"()", "(None)"} \cup EnvNames

\* if env is None: env = os.getenv("APP_ENV", "dev")
ResolveEnv(form, app_env) ==
    IF form \in {"()", "(None)"}
    THEN IF app_env = "unset" THEN "dev" ELSE app_env
    ELSE form

\* @lru_cache(): the cache key is the argument list of the call.
CacheKey(form, app_env) == form

LoaderIdle ==
    [app_env |-> "unset",
     cache |-> [k \in {} |-> 0],     \* lru_cache: key -> the cached Config
     objects |-> 0,                  \* Config objects constructed so far
     loads |-> <<>>]                 \* each call: form, resolved name, result

\* One call of get_config: a cache hit returns the cached object; a miss runs
\* the function, which raises FileNotFoundError (nothing is cached) or
\* constructs a Config that is cached under the key.
GetConfig(l, form) ==
    LET key == CacheKey(form, l.app_env)
        env == ResolveEnv(form, l.app_env)
    IN  IF key \in DOMAIN l.cache
        THEN [l EXCEPT !.loads = Append(@, [form |-> form, resolved |-> env,
                                            object |-> l.cache[key]])]
        ELSE IF env \notin ExistingConfigFiles
             THEN [l EXCEPT !.loads = Append(@, [form |-> form, resolved |-> env,
                                                 object |-> 0])]
             ELSE [l EXCEPT !.objects = @ + 1,
                            !.cache = @ @@ (key :> (l.objects + 1)),
                            !.loads = Append(@, [form |-> form, resolved |-> env,
                                                 object |-> l.objects + 1])]

CallGetConfig ==
    /\ entry = "config_loader"
    /\ Len(loader.loads) < MaxLoads
    /\ \E form \in CallForms : loader' = GetConfig(loader, form)
    /\ UNCHANGED OutsideLoader

NextLoader == CallGetConfig

\* The loads that returned a Config.
Loaded == {i \in DOMAIN loader.loads : loader.loads[i].object # 0}

\* C6 (as claimed): two loads that resolve to the same environment name
\* return the identical object, however the name was given, and loads that
\* resolve to different names return distinct objects.
C6_MemoizedPerResolvedName ==
    \A i, j \in Loaded :
        (loader.loads[i].resolved = loader.loads[j].resolved)
            <=> (loader.loads[i].object = loader.loads[j].object)

\* ------------------------------------------------------- database singleton
\* The processes that call get_database() from several threads: the API
\* (startup hook on the event loop, then the thread pool that runs the
\* get_db_session dependencies) and the dashboard (one script thread per
\* browser session, no startup hook).
ProcessKinds == {"api", "dashboard"}

Threads == 1..MaxThreads

ThreadIdle == [pc |-> "idle", calls |-> 0, returned |-> {}]

SingletonIdle ==
    [kind |-> "api",
     startup |-> "done",
     db_instance |-> 0,             \* _db_instance; 0 is None
     constructed |-> 0,             \* Database() instances constructed
     thread |-> [t \in Threads |-> ThreadIdle]]

\* The process as it starts: the API has its startup hook still to run.
SingletonStart(kind) ==
    [SingletonIdle EXCEPT !.kind = kind,
                          !.startup = IF kind = "api" THEN "pending" ELSE "none"]

\* startup_event: db = get_database(); db.create_tables().  It runs to its
\* end before the server accepts a request.
StartupEvent ==
    /\ entry = "db_singleton"
    /\ singleton.startup = "pending"
    /\ singleton' = [singleton EXCEPT
                        !.startup = "done",
                        !.constructed = IF singleton.db_instance = 0 THEN @ + 1 ELSE @,
                        !.db_instance = IF @ = 0 THEN singleton.constructed + 1 ELSE @]
    /\ UNCHANGED OutsideSingleton

\* A thread may run request or script code once the process serves.
Serving == singleton.startup \in {"done", "none"}

\* if _db_instance is None:
GetDatabaseCheck(t) ==
    /\ entry = "db_singleton"
    /\ Serving
    /\ singleton.thread[t].pc \in {"idle", "returned"}
    /\ singleton.thread[t].calls < MaxCallsPerThread
    /\ singleton' = [singleton EXCEPT
                        !.thread[t].calls = @ + 1,
                        !.thread[t].pc = IF singleton.db_instance = 0
                                           THEN "construct" ELSE "return"]
    /\ UNCHANGED OutsideSingleton

\* _db_instance = Database()
GetDatabaseConstruct(t) ==
    /\ entry = "db_singleton"
    /\ singleton.thread[t].pc = "construct"
    /\ singleton' = [singleton EXCEPT
                        !.constructed = @ + 1,
                        !.db_instance = singleton.constructed + 1,
                        !.thread[t].pc = "return"]
    /\ UNCHANGED OutsideSingleton

\* return _db_instance
GetDatabaseReturn(t) ==
    /\ entry = "db_singleton"
    /\ singleton.thread[t].pc = "return"
    /\ singleton' = [singleton EXCEPT
                        !.thread[t].pc = "returned",
                        !.thread[t].returned = @ \cup {singleton.db_instance}]
    /\ UNCHANGED OutsideSingleton

NextSingleton ==
    \/ StartupEvent
    \/ \E t \in Threads : GetDatabaseCheck(t)
    \/ \E t \in Threads : GetDatabaseConstruct(t)
    \/ \E t \in Threads : GetDatabaseReturn(t)

\* C7 (as claimed): over any interleaving of get_database() calls at most one
\* Database is ever constructed and every call returns that same instance.
C7_OneDatabaseInstance ==
    /\ singleton.constructed <= 1
    /\ \A t \in Threads : singleton.thread[t].returned \subseteq {1}

\* ------------------------------------------------- evaluators (evaluate())
\* A text is the sequence of the pieces str.split(' ') cuts it into, so that
\* joining the pieces with single spaces gives the string back.  The piece ""
\* stands between two adjacent spaces (or at an end of the string), which is
\* how runs of whitespace are written.  No IOC pattern matches across a
\* space, so findall over a text is the union of findall over its pieces.
Tokens == {"", "hello", "1.2.3.4", "evil.com", "a.com", "b.com",
           "bob@evil.com", "CVE-2021-44228", "cve-2021-44228"}

\* The pieces the IOC evaluator is run on: a plain word and indicators.
IocTokens == {"hello", "1.2.3.4", "evil.com", "a.com", "b.com",
              "bob@evil.com", "CVE-2021-44228"}

\* The pieces that differ in nothing but case or spacing, and a plain word.
PlainTokens == {"", "hello", "CVE-2021-44228", "cve-2021-44228"}

TextsOver(tokens, n) == UNION {[1..k -> tokens] : k \in 0..n}

TextsUpTo(n) == TextsOver(Tokens, n)

\* len(token).
TokenLength(token) ==
    CASE token = "" -> 0
      [] token = "1.2.3.4" -> 7
      [] token = "hello" -> 5
      [] token = "evil.com" -> 8
      [] token \in {"a.com", "b.com"} -> 5
      [] token = "bob@evil.com" -> 12
      [] token \in {"CVE-2021-44228", "cve-2021-44228"} -> 14

RECURSIVE SumOfLengths(_)
SumOfLengths(text) ==
    IF text = <<>> THEN 0
    ELSE TokenLength(Head(text)) + SumOfLengths(Tail(text))

\* len(text): the pieces and the single spaces between them.
TextLength(text) ==
    IF text = <<>> THEN 0 ELSE SumOfLengths(text) + (Len(text) - 1)

\* str.lower().
LowerToken(token) ==
    IF token = "CVE-2021-44228" THEN "cve-2021-44228" ELSE token

Lower(text) == [i \in DOMAIN text |-> LowerToken(text[i])]

\* text.split(): the pieces between runs of whitespace, none of them empty.
Split(text) == SelectSeq(text, LAMBDA token : token # "")

\* kwargs.get('ground_truth'): None when the caller gave none, else a text.
NoGroundTruth == [given |-> FALSE, text |-> <<>>]

GroundTruthsOver(tokens) ==
    {NoGroundTruth}
    \cup {[given |-> TRUE, text |-> t] :
            t \in TextsOver(tokens, MaxGroundTruthTokens)}

GroundTruths == GroundTruthsOver(Tokens)

\* Python truth of ground_truth: neither None nor the empty string.
Truthy(ground_truth) ==
    ground_truth.given /\ TextLength(ground_truth.text) > 0

\* Scores are fractions in lowest terms, so that equal scores are equal values.
RECURSIVE GCD(_, _)
GCD(a, b) == IF b = 0 THEN a ELSE GCD(b, a % b)

Rat(n, d) == LET g == GCD(n, d) IN [num |-> n \div g, den |-> d \div g]

Zero == Rat(0, 1)
One == Rat(1, 1)
RatOf(n) == Rat(n, 1)
RatAdd(x, y) == Rat(x.num * y.den + y.num * x.den, x.den * y.den)
RatMul(x, y) == Rat(x.num * y.num, x.den * y.den)
RatDiv(x, y) == Rat(x.num * y.den, x.den * y.num)
RatGeq(x, y) == x.num * y.den >= y.num * x.den
RatGt(x, y) == x.num * y.den > y.num * x.den

\* dict(): a mapping without keys.
EmptyDict == [k \in {} |-> None]

\* bool as the value of EvaluationResult.passed, which can also be None.
PassedOf(b) == IF b THEN "True" ELSE "False"

EvaluationResult(metric_type, value, metadata, passed) ==
    [metric_type |-> metric_type, value |-> value, metadata |-> metadata,
     passed |-> passed]

\* What one evaluate() call gave and the model calls it made on the way.
Evaluated(result, judge_calls, similarity_calls) ==
    [result |-> result, judge_calls |-> judge_calls,
     similarity_calls |-> similarity_calls]

\* --- IOCExtractorEvaluator
\* PATTERNS, in the order of the dict.
IocTypes == <<"ipv4", "domain", "md5", "sha256", "cve", "email">>

IocTypeSet == {IocTypes[i] : i \in DOMAIN IocTypes}

\* re.findall(PATTERNS[ioc_type], token, re.IGNORECASE).  A pattern without
\* groups gives the matched strings (written as 1-tuples); the domain pattern
\* has two capture groups, so findall gives for each match the pair of what
\* the groups captured, and neither group holds the first character.
FindAll(ioc_type, token) ==
    CASE ioc_type = "ipv4" ->
           IF token = "1.2.3.4" THEN {<<token>>} ELSE {}
      [] ioc_type = "domain" ->
           CASE token \in {"evil.com", "bob@evil.com"} -> {<<"vil", ".com">>}
             [] token \in {"a.com", "b.com"} -> {<<"", ".com">>}
             [] OTHER -> {}
      [] ioc_type = "cve" ->
           IF token \in {"CVE-2021-44228", "cve-2021-44228"}
           THEN {<<token>>} ELSE {}
      [] ioc_type = "email" ->
           IF token = "bob@evil.com" THEN {<<token>>} ELSE {}
      [] OTHER -> {}

\* The substrings of token that PATTERNS[ioc_type] matches (group 0 of each
\* match).
Matches(ioc_type, token) ==
    CASE ioc_type = "ipv4" ->
           IF token = "1.2.3.4" THEN {token} ELSE {}
      [] ioc_type = "domain" ->
           CASE token \in {"evil.com", "bob@evil.com"} -> {"evil.com"}
             [] token \in {"a.com", "b.com"} -> {token}
             [] OTHER -> {}
      [] ioc_type = "cve" ->
           IF token \in {"CVE-2021-44228", "cve-2021-44228"}
           THEN {token} ELSE {}
      [] ioc_type = "email" ->
           IF token = "bob@evil.com" THEN {token} ELSE {}
      [] OTHER -> {}

\* extract_iocs(text) as a total mapping: a type the dict omits maps to {}.
ExtractIocs(text) ==
    [ioc_type \in IocTypeSet |->
        UNION {FindAll(ioc_type, text[i]) : i \in DOMAIN text}]

\* list(extracted.keys()): the types with a match, in PATTERNS order.
Keys(extracted) == SelectSeq(IocTypes, LAMBDA ioc_type : extracted[ioc_type] # {})

RECURSIVE SumOver(_, _)
SumOver(f, keys) ==
    IF keys = <<>> THEN 0
    ELSE Cardinality(f[Head(keys)]) + SumOver(f, Tail(keys))

\* sum(len(iocs) for iocs in extracted.values()).
TotalExtracted(extracted) == SumOver(extracted, Keys(extracted))

Flatten(extracted) == UNION {extracted[ioc_type] : ioc_type \in IocTypeSet}

\* A precision that is vacuously 1 when nothing was extracted.
CalculateMetricsVacuous(extracted, ground_truth) ==
    LET extracted_flat == Flatten(extracted)
        gt_flat == Flatten(ground_truth)
        true_positives == Cardinality(extracted_flat \cap gt_flat)
    IN  IF extracted_flat = {}
        THEN [precision |-> One, recall |-> Zero, f1 |-> Zero]
        ELSE [precision |-> Rat(true_positives, Cardinality(extracted_flat)),
              recall |-> Zero, f1 |-> Zero]

\* _calculate_metrics(): precision, recall and F1 over the flattened sets.
CalculateMetrics(extracted, ground_truth) ==
    LET extracted_flat == Flatten(extracted)
        gt_flat == Flatten(ground_truth)
        true_positives == Cardinality(extracted_flat \cap gt_flat)
        precision == Rat(true_positives, Cardinality(extracted_flat))
        recall == IF gt_flat # {}
                  THEN Rat(true_positives, Cardinality(gt_flat)) ELSE Zero
        f1 == IF RatGt(RatAdd(precision, recall), Zero)
              THEN RatDiv(RatMul(RatOf(2), RatMul(precision, recall)),
                          RatAdd(precision, recall))
              ELSE Zero
    IN  IF extracted_flat = {}
        THEN [precision |-> Zero, recall |-> Zero, f1 |-> Zero]
        ELSE [precision |-> precision, recall |-> recall, f1 |-> f1]

\* The F1 an extraction has to reach.
F1Threshold == Rat(8, 10)

\* IOCExtractorEvaluator.evaluate(prompt, response, ground_truth=...).
IOCEvaluate(response, ground_truth) ==
    LET extracted == ExtractIocs(response)
        total_extracted == TotalExtracted(extracted)
        m == CalculateMetrics(extracted, ExtractIocs(ground_truth.text))
    IN  IF Truthy(ground_truth)
        THEN Evaluated(
               EvaluationResult("ioc_extraction_f1", m.f1,
                   [precision |-> m.precision, recall |-> m.recall,
                    extracted_count |-> total_extracted,
                    ioc_types |-> Keys(extracted)],
                   PassedOf(RatGeq(m.f1, F1Threshold))), 0, 0)
        ELSE Evaluated(
               EvaluationResult("ioc_extraction_count", RatOf(total_extracted),
                   [ioc_breakdown |->
                        [k \in {t \in IocTypeSet : extracted[t] # {}} |->
                            Cardinality(extracted[k])],
                    ioc_types |-> Keys(extracted)],
                   None), 0, 0)

\* --- FactualityEvaluator and ExactMatchEvaluator
\* A bug that reports a failure where the evaluator cannot tell.
NoGroundTruthResultFails(metric_type) ==
    EvaluationResult(metric_type, Zero, [error |-> "no_ground_truth"], "False")

\* What both evaluators return when ground_truth is None or empty.
NoGroundTruthResult(metric_type) ==
    EvaluationResult(metric_type, Zero, [error |-> "no_ground_truth"], None)

\* Defaults of FactualityEvaluator.__init__.
FactualityMaxRetries == 2
FactualityThreshold == Rat(8, 10)

\* A score, or None.
NoScore == [is_none |-> TRUE, score |-> Zero]
Score(x) == [is_none |-> FALSE, score |-> x]

\* _call_llm_judge(): logs that no judge is implemented and returns None.
CallLlmJudge == NoScore

\* _evaluate_with_llm_judge(): the judge's score, None if anything raised.
EvaluateWithLlmJudge == CallLlmJudge

\* for attempt in range(self.max_retries): stop at the first score.
RECURSIVE JudgeLoop(_, _)
JudgeLoop(attempt, calls) ==
    IF attempt >= FactualityMaxRetries
    THEN [judged |-> NoScore, calls |-> calls]
    ELSE LET factuality_score == EvaluateWithLlmJudge
         IN  IF ~factuality_score.is_none
             THEN [judged |-> factuality_score, calls |-> calls + 1]
             ELSE JudgeLoop(attempt + 1, calls + 1)

\* What the embedding model can do: raise, or give a cosine similarity that
\* the code maps from [-1, 1] to [0, 1].
SimilarityOutcomes ==
    {[raised |-> TRUE, similarity |-> Zero]}
    \cup {[raised |-> FALSE, similarity |-> s] :
            s \in {Zero, Rat(1, 2), Rat(8, 10), One}}

\* _evaluate_with_similarity(): 0.0 without a model or when encoding raises.
EvaluateWithSimilarity(fallback_to_similarity, outcome) ==
    IF ~fallback_to_similarity
    THEN [score |-> Zero, calls |-> 0]
    ELSE [score |-> IF outcome.raised THEN Zero ELSE outcome.similarity,
          calls |-> 1]

\* FactualityEvaluator.evaluate(prompt, response, ground_truth=...).
FactualityEvaluate(run, outcome) ==
    IF ~Truthy(run.ground_truth)
    THEN Evaluated(NoGroundTruthResult("factuality"), 0, 0)
    ELSE
      LET judge == IF run.use_llm_judge
                   THEN JudgeLoop(0, 0)
                   ELSE [judged |-> NoScore, calls |-> 0]
          use_similarity == judge.judged.is_none \/ run.fallback_to_similarity
          sim == EvaluateWithSimilarity(run.fallback_to_similarity, outcome)
          scored == IF ~judge.judged.is_none
                    THEN [score |-> judge.judged.score, method |-> "llm_judge"]
                    ELSE IF use_similarity
                    THEN [score |-> sim.score,
                          method |-> "semantic_similarity"]
                    ELSE [score |-> Zero, method |-> "failed"]
          base == [method |-> scored.method,
                   threshold |-> FactualityThreshold,
                   ground_truth_length |-> TextLength(run.ground_truth.text),
                   response_length |-> TextLength(run.response)]
          metadata == IF use_similarity
                      THEN [k \in DOMAIN base \cup {"semantic_similarity"} |->
                              IF k = "semantic_similarity"
                              THEN sim.score ELSE base[k]]
                      ELSE base
      IN  Evaluated(
            EvaluationResult("factuality", scored.score, metadata,
                PassedOf(RatGeq(scored.score, FactualityThreshold))),
            judge.calls, IF use_similarity THEN sim.calls ELSE 0)

\* ExactMatchEvaluator._normalize().
Normalize(run, text) ==
    LET spaced == IF run.normalize_whitespace THEN Split(text) ELSE text
    IN  IF ~run.case_sensitive THEN Lower(spaced) ELSE spaced

\* ExactMatchEvaluator.evaluate(prompt, response, ground_truth=...).
ExactMatchEvaluate(run) ==
    IF ~Truthy(run.ground_truth)
    THEN Evaluated(NoGroundTruthResult("exact_match"), 0, 0)
    ELSE
      LET is_match == Normalize(run, run.response)
                        = Normalize(run, run.ground_truth.text)
      IN  Evaluated(
            EvaluationResult("exact_match", IF is_match THEN One ELSE Zero,
                [case_sensitive |-> run.case_sensitive,
                 normalize_whitespace |-> run.normalize_whitespace],
                PassedOf(is_match)), 0, 0)

\* --- one evaluate() call
EvaluatorNames == {"factuality", "exact_match", "ioc_extraction"}

NoResult == EvaluationResult(None, Zero, EmptyDict, None)

EvalIdle ==
    [pc |-> "idle", evaluator |-> None, response |-> <<>>,
     ground_truth |-> NoGroundTruth,
     use_llm_judge |-> TRUE, fallback_to_similarity |-> TRUE,
     case_sensitive |-> FALSE, normalize_whitespace |-> TRUE,
     result |-> NoResult, judge_calls |-> 0, similarity_calls |-> 0,
     similarity_raised |-> FALSE]   \* the embedding model raised in the call

\* An evaluator, its configuration and the arguments of the call.  The
\* factuality evaluator reads its texts only for their length and emptiness;
\* the exact-match evaluator compares them up to case and spacing.
EvalInputs ==
    {[EvalIdle EXCEPT !.pc = "called", !.evaluator = "ioc_extraction",
                      !.response = r, !.ground_truth = g] :
        r \in TextsOver(IocTokens, MaxTokens),
        g \in GroundTruthsOver(IocTokens)}
    \cup
    {[EvalIdle EXCEPT !.pc = "called", !.evaluator = "exact_match",
                      !.response = r, !.ground_truth = g,
                      !.case_sensitive = c, !.normalize_whitespace = w] :
        r \in TextsOver(PlainTokens, MaxTokens),
        g \in GroundTruthsOver(PlainTokens),
        c \in BOOLEAN, w \in BOOLEAN}
    \cup
    {[EvalIdle EXCEPT !.pc = "called", !.evaluator = "factuality",
                      !.response = r, !.ground_truth = g,
                      !.use_llm_judge = j, !.fallback_to_similarity = f] :
        r \in TextsUpTo(1), g \in GroundTruths, j \in BOOLEAN, f \in BOOLEAN}

Finish(run, evaluated) ==
    [run EXCEPT !.pc = "done", !.result = evaluated.result,
                !.judge_calls = evaluated.judge_calls,
                !.similarity_calls = evaluated.similarity_calls]

EvaluateIOC ==
    /\ entry = "evaluator"
    /\ evalrun.pc = "called"
    /\ evalrun.evaluator = "ioc_extraction"
    /\ evalrun' = Finish(evalrun,
                         IOCEvaluate(evalrun.response, evalrun.ground_truth))
    /\ UNCHANGED OutsideEvaluator

EvaluateExactMatch ==
    /\ entry = "evaluator"
    /\ evalrun.pc = "called"
    /\ evalrun.evaluator = "exact_match"
    /\ evalrun' = Finish(evalrun, ExactMatchEvaluate(evalrun))
    /\ UNCHANGED OutsideEvaluator

EvaluateFactuality ==
    /\ entry = "evaluator"
    /\ evalrun.pc = "called"
    /\ evalrun.evaluator = "factuality"
    /\ \E outcome \in SimilarityOutcomes :
         LET evaluated == FactualityEvaluate(evalrun, outcome)
         IN  evalrun' = [Finish(evalrun, evaluated) EXCEPT
                           !.similarity_raised =
                               evaluated.similarity_calls > 0 /\ outcome.raised]
    /\ UNCHANGED OutsideEvaluator

NextEvaluator ==
    \/ EvaluateIOC
    \/ EvaluateExactMatch
    \/ EvaluateFactuality

\* The caller passed no ground_truth.
GroundTruthAbsent(run) == ~run.ground_truth.given

\* No judge call and no use of the embedding model.
NoModelCalls(run) == run.judge_calls = 0 /\ run.similarity_calls = 0

HasErrorMarker(result) ==
    /\ "error" \in DOMAIN result.metadata
    /\ result.metadata["error"] = "no_ground_truth"

\* C9: with no ground_truth, the factuality and the exact-match evaluator
\* return value 0.0, passed None and metadata {'error': 'no_ground_truth'};
\* the IOC extraction evaluator returns its count result instead: metric_type
\* ioc_extraction_count, the extracted count as value, passed None and no
\* error marker.  None of the three calls the judge or the similarity model.
C9_NoGroundTruthResults ==
    (evalrun.pc = "done" /\ GroundTruthAbsent(evalrun)) =>
        /\ NoModelCalls(evalrun)
        /\ evalrun.result.passed = None
        /\ evalrun.evaluator \in {"factuality", "exact_match"} =>
              /\ evalrun.result.metric_type = evalrun.evaluator
              /\ evalrun.result.value = Zero
              /\ HasErrorMarker(evalrun.result)
        /\ evalrun.evaluator = "ioc_extraction" =>
              /\ evalrun.result.metric_type = "ioc_extraction_count"
              /\ evalrun.result.value =
                    RatOf(TotalExtracted(ExtractIocs(evalrun.response)))
              /\ "error" \notin DOMAIN evalrun.result.metadata

\* The IOC evaluator, called without ground_truth on a response holding an
\* address and an identifier, reported the count 2.
C9_Witness_IocCountsWithoutGroundTruth ==
    /\ evalrun.pc = "done"
    /\ evalrun.evaluator = "ioc_extraction"
    /\ GroundTruthAbsent(evalrun)
    /\ evalrun.response = <<"1.2.3.4", "CVE-2021-44228">>
    /\ evalrun.result.value = RatOf(2)

\* C9 (as claimed): all three evaluators return value 0.0, passed None and an
\* error marker when ground_truth is absent, without model calls.
C9_AllThreeReturnErrorResult ==
    (evalrun.pc = "done" /\ GroundTruthAbsent(evalrun)) =>
        /\ NoModelCalls(evalrun)
        /\ evalrun.result.passed = None
        /\ evalrun.result.value = Zero
        /\ "error" \in DOMAIN evalrun.result.metadata

\* The distinct strings in the response that a pattern matches.
DistinctMatches(ioc_type, text) ==
    UNION {Matches(ioc_type, text[i]) : i \in DOMAIN text}

RECURSIVE SumDistinctMatches(_, _)
SumDistinctMatches(types, text) ==
    IF types = <<>> THEN 0
    ELSE Cardinality(DistinctMatches(Head(types), text))
           + SumDistinctMatches(Tail(types), text)

\* C10 (as claimed): IOC evaluate() without ground_truth returns metric_type
\* ioc_extraction_count, value = the sum over the IOC types of the number of
\* distinct matches in the response, passed None, and metadata that lists
\* exactly the types with at least one match.
C10_CountIsSumOfDistinctMatches ==
    (/\ evalrun.pc = "done"
     /\ evalrun.evaluator = "ioc_extraction"
     /\ ~Truthy(evalrun.ground_truth)) =>
        /\ evalrun.result.metric_type = "ioc_extraction_count"
        /\ evalrun.result.value =
              RatOf(SumDistinctMatches(IocTypes, evalrun.response))
        /\ evalrun.result.passed = None
        /\ evalrun.result.metadata.ioc_types =
              SelectSeq(IocTypes,
                  LAMBDA t : DistinctMatches(t, evalrun.response) # {})
        /\ DOMAIN evalrun.result.metadata.ioc_breakdown =
              {t \in IocTypeSet : DistinctMatches(t, evalrun.response) # {}}

\* The indicators a text holds, of every type: the strings the patterns match.
Indicators(text) == UNION {DistinctMatches(t, text) : t \in IocTypeSet}

\* 2 * precision * recall / (precision + recall), 0 when the sum is 0.
HarmonicMean(precision, recall) ==
    IF RatGt(RatAdd(precision, recall), Zero)
    THEN RatDiv(RatMul(RatOf(2), RatMul(precision, recall)),
                RatAdd(precision, recall))
    ELSE Zero

\* C11 (as claimed): IOC evaluate() with a ground truth takes the indicators
\* of the response, E, and of the ground truth, G, and reports precision =
\* |E \cap G| / |E|, recall = |E \cap G| / |G| (0 when G is empty), F1 = their
\* harmonic mean (0 when their sum is 0), metric_type ioc_extraction_f1,
\* value = F1 and passed = (F1 >= 0.8).
C11_F1OverIndicators ==
    (/\ evalrun.pc = "done"
     /\ evalrun.evaluator = "ioc_extraction"
     /\ Truthy(evalrun.ground_truth)
     /\ Indicators(evalrun.response) # {}) =>
        LET E == Indicators(evalrun.response)
            G == Indicators(evalrun.ground_truth.text)
            precision == Rat(Cardinality(E \cap G), Cardinality(E))
            recall == IF G = {} THEN Zero
                      ELSE Rat(Cardinality(E \cap G), Cardinality(G))
            f1 == HarmonicMean(precision, recall)
        IN  /\ evalrun.result.metric_type = "ioc_extraction_f1"
            /\ evalrun.result.metadata.precision = precision
            /\ evalrun.result.metadata.recall = recall
            /\ evalrun.result.value = f1
            /\ evalrun.result.passed = PassedOf(RatGeq(f1, Rat(8, 10)))

\* C12: a response without any indicator, evaluated against a ground truth,
\* gets precision 0, recall 0 and F1 0 (and so passed = false), whatever the
\* ground truth holds, a ground truth without indicators included.
C12_NothingExtractedScoresZero ==
    (/\ evalrun.pc = "done"
     /\ evalrun.evaluator = "ioc_extraction"
     /\ Truthy(evalrun.ground_truth)
     /\ Indicators(evalrun.response) = {}) =>
        /\ evalrun.result.metric_type = "ioc_extraction_f1"
        /\ evalrun.result.metadata.precision = Zero
        /\ evalrun.result.metadata.recall = Zero
        /\ evalrun.result.value = Zero
        /\ evalrun.result.passed = "False"

\* A response of a plain word was scored against a ground truth that holds
\* no indicator either.
C12_Witness_NoIndicatorOnEitherSide ==
    /\ evalrun.pc = "done"
    /\ evalrun.evaluator = "ioc_extraction"
    /\ evalrun.response = <<"hello">>
    /\ evalrun.ground_truth = [given |-> TRUE, text |-> <<"hello">>]
    /\ evalrun.result.metadata.precision = Zero

\* Every scoring method failed: the judge gave no score, and the similarity
\* model is not loaded or raised.
EveryMethodFailed(run) ==
    /\ run.use_llm_judge => run.judge_calls = FactualityMaxRetries
    /\ ~run.fallback_to_similarity \/ run.similarity_raised

\* C13 (as claimed): with a ground truth and every scoring method failing,
\* the factuality result has value 0.0 and metadata method 'failed'.
C13_AllMethodsFailedIsLabelledFailed ==
    (/\ evalrun.pc = "done"
     /\ evalrun.evaluator = "factuality"
     /\ Truthy(evalrun.ground_truth)
     /\ EveryMethodFailed(evalrun)) =>
        /\ evalrun.result.value = Zero
        /\ evalrun.result.metadata.method = "failed"

\* --------------------------------------------------------- LatencyEvaluator
\* The keys evaluate() looks up in self.thresholds.
ThresholdKeys == {"mean_ms", "p50_ms", "p95_ms", "p99_ms"}

\* Latencies and thresholds, in one unit.
LatencyValues == {1, 2, 3}
ThresholdValues == {1, 2}

\* self.thresholds: any subset of the keys, each with a limit.  The defaults
\* of __init__ are one of those with all four keys.
ThresholdConfigs ==
    UNION {[keys -> ThresholdValues] : keys \in SUBSET ThresholdKeys}

\* kwargs.get('latencies_ms'): None, or a list.
NoLatencies == [given |-> FALSE, list |-> <<>>]

LatencyLists ==
    {NoLatencies}
    \cup {[given |-> TRUE, list |-> l] :
            l \in UNION {[1..k -> LatencyValues] : k \in 0..MaxSamples}}

\* kwargs.get('latency_ms'): None, or a number, 0 included.
NoLatencyMs == [given |-> FALSE, ms |-> 0]

LatencyMsValues ==
    {NoLatencyMs} \cup {[given |-> TRUE, ms |-> v] : v \in {0} \cup LatencyValues}

\* sorted(): insertion of each value into the sorted rest.
RECURSIVE Insert(_, _)
Insert(x, sorted_vals) ==
    IF sorted_vals = <<>> THEN <<x>>
    ELSE IF x <= Head(sorted_vals) THEN <<x>> \o sorted_vals
    ELSE <<Head(sorted_vals)>> \o Insert(x, Tail(sorted_vals))

RECURSIVE Sorted(_)
Sorted(vals) ==
    IF vals = <<>> THEN <<>> ELSE Insert(Head(vals), Sorted(Tail(vals)))

RECURSIVE Sum(_)
Sum(vals) == IF vals = <<>> THEN 0 ELSE Head(vals) + Sum(Tail(vals))

\* round(num / den) as Python 3 rounds: a tie goes to the even integer.
RoundHalfEven(num, den) ==
    LET q == num \div den
        r == num % den
    IN  IF 2 * r < den THEN q
        ELSE IF 2 * r > den THEN q + 1
        ELSE IF q % 2 = 0 THEN q ELSE q + 1

Min(a, b) == IF a <= b THEN a ELSE b
Max(a, b) == IF a >= b THEN a ELSE b

\* A percentile that always takes the index below the rank.
PercentileFloor(sorted_vals, p) ==
    IF sorted_vals = <<>> THEN Zero
    ELSE LET k == (p * (Len(sorted_vals) - 1)) \div 100
             clamped == Max(0, Min(k, Len(sorted_vals) - 1))
         IN  RatOf(sorted_vals[clamped + 1])

\* _percentile(sorted_vals, p): the value at index round(p/100 * (n - 1)),
\* clamped to the list (the list is indexed from 0 in the code).
Percentile(sorted_vals, p) ==
    IF sorted_vals = <<>> THEN Zero
    ELSE LET k == RoundHalfEven(p * (Len(sorted_vals) - 1), 100)
             clamped == Max(0, Min(k, Len(sorted_vals) - 1))
         IN  RatOf(sorted_vals[clamped + 1])

\* calculate_stats(latencies_ms).
CalculateStats(latencies_ms) ==
    IF latencies_ms = <<>>
    THEN [n |-> 0, mean_ms |-> Zero, p50_ms |-> Zero, p95_ms |-> Zero,
          p99_ms |-> Zero, min_ms |-> Zero, max_ms |-> Zero]
    ELSE LET vals == Sorted(latencies_ms)
         IN  [n |-> Len(vals),
              mean_ms |-> Rat(Sum(vals), Len(vals)),
              p50_ms |-> Percentile(vals, 50),
              p95_ms |-> Percentile(vals, 95),
              p99_ms |-> Percentile(vals, 99),
              min_ms |-> RatOf(vals[1]),
              max_ms |-> RatOf(vals[Len(vals)])]

\* all(threshold_checks.values()) if threshold_checks else True
AllChecks(threshold_checks) ==
    \A k \in DOMAIN threshold_checks : threshold_checks[k]

\* A score that reports the mean.
PrimaryValueIsMean(stats) == stats.mean_ms

\* primary_value = stats.p95_ms
PrimaryValue(stats) == stats.p95_ms

\* The checks of a sample: one per configured key, under the key's name
\* without its _ms.
StatChecks(thresholds, stats) ==
    LET name == [k \in ThresholdKeys |->
                    CASE k = "mean_ms" -> "mean" [] k = "p50_ms" -> "p50"
                      [] k = "p95_ms" -> "p95" [] k = "p99_ms" -> "p99"]
        present == ThresholdKeys \cap DOMAIN thresholds
    IN  [c \in {name[k] : k \in present} |->
            LET k == CHOOSE key \in present : name[key] = c
            IN  RatGeq(RatOf(thresholds[k]), stats[k])]

\* A single value checked against every configured key.
CheckThresholdsEveryKey(thresholds, latency_ms) ==
    [k \in ThresholdKeys \cap DOMAIN thresholds |-> latency_ms <= thresholds[k]]

\* _check_thresholds(latency_ms): the mean and the p95 limit only.
CheckThresholds(thresholds, latency_ms) ==
    LET name == [k \in {"mean_ms", "p95_ms"} |->
                    IF k = "mean_ms" THEN "mean_threshold_passed"
                    ELSE "p95_threshold_passed"]
        present == {"mean_ms", "p95_ms"} \cap DOMAIN thresholds
    IN  [c \in {name[k] : k \in present} |->
            LET k == CHOOSE key \in present : name[key] = c
            IN  latency_ms <= thresholds[k]]

\* LatencyEvaluator.evaluate(prompt, response, latencies_ms=..., latency_ms=...).
LatencyEvaluate(thresholds, latencies_ms, latency_ms) ==
    IF latencies_ms.given /\ latencies_ms.list # <<>>
    THEN LET stats == CalculateStats(latencies_ms.list)
             threshold_checks == StatChecks(thresholds, stats)
         IN  EvaluationResult("latency", PrimaryValue(stats),
                 [n |-> stats.n, mean_ms |-> stats.mean_ms,
                  p50_ms |-> stats.p50_ms, p95_ms |-> stats.p95_ms,
                  p99_ms |-> stats.p99_ms, min_ms |-> stats.min_ms,
                  max_ms |-> stats.max_ms, thresholds |-> thresholds,
                  threshold_checks |-> threshold_checks,
                  unit |-> "milliseconds"],
                 PassedOf(AllChecks(threshold_checks)))
    ELSE IF ~latency_ms.given
    THEN EvaluationResult("latency", Zero,
             [error |-> "latency_ms not provided"], None)
    ELSE LET threshold_checks == CheckThresholds(thresholds, latency_ms.ms)
         IN  EvaluationResult("latency", RatOf(latency_ms.ms),
                 [thresholds |-> thresholds,
                  threshold_checks |-> threshold_checks,
                  unit |-> "milliseconds"],
                 PassedOf(AllChecks(threshold_checks)))

LatencyIdle ==
    [pc |-> "idle", thresholds |-> EmptyDict, latencies_ms |-> NoLatencies,
     latency_ms |-> NoLatencyMs, result |-> NoResult]

\* A configured evaluator and the keyword arguments of one call.
LatencyInputs ==
    {[LatencyIdle EXCEPT !.pc = "called", !.thresholds = t,
                         !.latencies_ms = l, !.latency_ms = m] :
        t \in ThresholdConfigs, l \in LatencyLists, m \in LatencyMsValues}

EvaluateLatency ==
    /\ entry = "latency"
    /\ latency.pc = "called"
    /\ latency' = [latency EXCEPT
                     !.pc = "done",
                     !.result = LatencyEvaluate(latency.thresholds,
                                    latency.latencies_ms, latency.latency_ms)]
    /\ UNCHANGED OutsideLatency

NextLatency == EvaluateLatency

\* The statistic a threshold key limits.
Statistic(key, sample) == CalculateStats(sample)[key]

\* latencies_ms was given and holds at least one measurement.
HasSample(run) == run.latencies_ms.given /\ run.latencies_ms.list # <<>>

\* C14: with a non-empty latencies_ms, the value is the p95 of the sample and
\* passed is the conjunction of statistic <= threshold over exactly the keys
\* among mean_ms, p50_ms, p95_ms, p99_ms that the thresholds hold; it is true
\* when they hold none.
C14_SampleReportsP95AndAllChecks ==
    (latency.pc = "done" /\ HasSample(latency)) =>
        /\ latency.result.metric_type = "latency"
        /\ latency.result.value =
              Percentile(Sorted(latency.latencies_ms.list), 95)
        /\ latency.result.passed =
              PassedOf(\A k \in ThresholdKeys \cap DOMAIN latency.thresholds :
                          RatGeq(RatOf(latency.thresholds[k]),
                                 Statistic(k, latency.latencies_ms.list)))

\* A sample whose p95 is within its limit failed on its mean alone, and the
\* value reported is the p95, which differs from the mean.
C14_Witness_MeanAloneFails ==
    /\ latency.pc = "done"
    /\ latency.latencies_ms.list = <<2, 1, 2>>
    /\ DOMAIN latency.thresholds = {"mean_ms", "p95_ms"}
    /\ latency.thresholds["mean_ms"] = 1
    /\ latency.thresholds["p95_ms"] = 2
    /\ latency.result.value = RatOf(2)
    /\ latency.result.passed = "False"

\* C15: a non-empty latencies_ms takes precedence over latency_ms; otherwise
\* a given latency_ms, 0 included, is the value and is checked against the
\* mean_ms and p95_ms limits only; otherwise the value is 0.0 and passed is
\* None, never false.
C15_BranchOrder ==
    latency.pc = "done" =>
        /\ HasSample(latency) =>
              /\ "n" \in DOMAIN latency.result.metadata
              /\ latency.result.value =
                    Percentile(Sorted(latency.latencies_ms.list), 95)
        /\ (~HasSample(latency) /\ latency.latency_ms.given) =>
              /\ latency.result.value = RatOf(latency.latency_ms.ms)
              /\ latency.result.passed =
                    PassedOf(\A k \in {"mean_ms", "p95_ms"}
                                        \cap DOMAIN latency.thresholds :
                                latency.latency_ms.ms <= latency.thresholds[k])
        /\ (~HasSample(latency) /\ ~latency.latency_ms.given) =>
              /\ latency.result.value = Zero
              /\ latency.result.passed = None
              /\ latency.result.passed # "False"

\* A latency_ms of 3 with an empty latencies_ms list passed although it is
\* above the configured p50 and p99 limits, which a single value is not
\* checked against.
C15_Witness_SingleValueSkipsP50AndP99 ==
    /\ latency.pc = "done"
    /\ latency.latencies_ms = [given |-> TRUE, list |-> <<>>]
    /\ latency.latency_ms = [given |-> TRUE, ms |-> 3]
    /\ DOMAIN latency.thresholds = {"p50_ms", "p99_ms"}
    /\ latency.thresholds["p50_ms"] = 1
    /\ latency.result.value = RatOf(3)
    /\ latency.result.passed = "True"

\* -------------------------------------------------------- ToxicityEvaluator
\* DEFAULT_CATEGORIES, in the order of the model's outputs.
DefaultCategories ==
    <<"toxic", "severe_toxic", "obscene", "threat", "insult", "identity_hate">>

\* self.categories: the first few of the default categories.
CategoryLists == {SubSeq(DefaultCategories, 1, k) : k \in 0..MaxCategories}

\* Sigmoid outputs, below, at and above the thresholds used.
ScoreLevels == {Zero, Rat(1, 2), Rat(7, 10), Rat(9, 10)}

\* self.threshold: the default 0.7, or a configured 0.5.
ToxicityThresholds == {Rat(7, 10), Rat(1, 2)}

\* What tokenizer and model do with a text: raise, or give one score per
\* output of the model.
PredictionOutcomes ==
    {[raised |-> TRUE, predictions |-> <<>>]}
    \cup {[raised |-> FALSE, predictions |-> pr] :
            pr \in UNION {[1..k -> ScoreLevels] : k \in 0..MaxCategories}}

\* _predict_toxicity(text): category -> score; all zeros when anything raised.
PredictToxicity(categories, outcome) ==
    IF outcome.raised
    THEN [c \in {categories[i] : i \in DOMAIN categories} |-> Zero]
    ELSE [c \in {categories[i] : i \in DOMAIN categories
                                   \cap DOMAIN outcome.predictions} |->
            LET i == CHOOSE j \in DOMAIN categories : categories[j] = c
            IN  outcome.predictions[i]]

\* max(scores.values()) if scores else 0.0
MaxToxicity(scores) ==
    IF DOMAIN scores = {} THEN Zero
    ELSE LET values == {scores[c] : c \in DOMAIN scores}
         IN  CHOOSE v \in values : \A w \in values : RatGeq(v, w)

\* Categories that count as toxic only above the threshold.
ToxicCategoriesAbove(categories, scores, threshold) ==
    SelectSeq(categories,
        LAMBDA c : c \in DOMAIN scores /\ RatGt(scores[c], threshold))

\* [cat for cat, score in scores.items() if score >= self.threshold]
ToxicCategories(categories, scores, threshold) ==
    SelectSeq(categories,
        LAMBDA c : c \in DOMAIN scores /\ RatGeq(scores[c], threshold))

\* ToxicityEvaluator.evaluate(prompt, response).
ToxicityEvaluate(categories, threshold, outcome) ==
    LET scores == PredictToxicity(categories, outcome)
        max_toxicity == MaxToxicity(scores)
        toxic_categories == ToxicCategories(categories, scores, threshold)
    IN  EvaluationResult("toxicity", max_toxicity,
            [category_scores |-> scores,
             toxic_categories |-> toxic_categories,
             threshold |-> threshold,
             max_score |-> max_toxicity,
             model |-> "unitary/toxic-bert"],
            PassedOf(Len(toxic_categories) = 0))

ToxicityIdle ==
    [pc |-> "idle", categories |-> <<>>, threshold |-> Rat(7, 10),
     outcome |-> [raised |-> FALSE, predictions |-> <<>>],
     result |-> NoResult]

\* A configured evaluator about to be called.
ToxicityInputs ==
    {[ToxicityIdle EXCEPT !.pc = "called", !.categories = c, !.threshold = t] :
        c \in CategoryLists, t \in ToxicityThresholds}

EvaluateToxicity ==
    /\ entry = "toxicity"
    /\ toxicity.pc = "called"
    /\ \E outcome \in PredictionOutcomes :
         toxicity' = [toxicity EXCEPT
                        !.pc = "done",
                        !.outcome = outcome,
                        !.result = ToxicityEvaluate(toxicity.categories,
                                       toxicity.threshold, outcome)]
    /\ UNCHANGED OutsideToxicity

NextToxicity == EvaluateToxicity

\* The scores the model gave, by category: one per category that has an
\* output.
ModelScores(run) ==
    {<<run.categories[i], run.outcome.predictions[i]>> :
        i \in DOMAIN run.categories \cap DOMAIN run.outcome.predictions}

MeasureVariants == {"measure_latency_ms", "measure_async"}

\* repeats, as callers pass it: also 0 and a negative number.
RepeatsValues == (0 - 1)..MaxRepeats

\* What fn raises.
FnErrors == {"RuntimeError"}

NoMeasurement == [latencies_ms |-> <<>>, stats |-> CalculateStats(<<>>)]

MeasureIdle ==
    [pc |-> "idle", variant |-> "measure_latency_ms", repeats |-> 1,
     calls |-> 0,            \* invocations of fn so far
     latencies |-> <<>>,     \* the local list
     returned |-> NoMeasurement, raised |-> NoError]

MeasureInputs ==
    {[MeasureIdle EXCEPT !.pc = "loop", !.variant = v, !.repeats = r] :
        v \in MeasureVariants, r \in RepeatsValues}

\* A loop that takes repeats as it is.
MeasureAttemptsUnclamped(repeats) == repeats

\* range(max(1, int(repeats)))
MeasureAttempts(repeats) == Max(1, repeats)

\* One iteration: fn() returns and its duration is appended, or it raises
\* and the exception is logged and re-raised.
MeasureIteration ==
    /\ entry = "measure"
    /\ measure.pc = "loop"
    /\ measure.calls < MeasureAttempts(measure.repeats)
    /\ \/ \E latency_ms \in LatencyValues :
            measure' = [measure EXCEPT
                          !.calls = @ + 1,
                          !.latencies = Append(@, latency_ms)]
       \/ \E e \in FnErrors :
            measure' = [measure EXCEPT
                          !.calls = @ + 1, !.pc = "raised", !.raised = e]
    /\ UNCHANGED OutsideMeasure

\* After the loop: the statistics of the list, and the return.
MeasureReturn ==
    /\ entry = "measure"
    /\ measure.pc = "loop"
    /\ measure.calls >= MeasureAttempts(measure.repeats)
    /\ measure' = [measure EXCEPT
                     !.pc = "returned",
                     !.returned = [latencies_ms |-> measure.latencies,
                                   stats |-> CalculateStats(measure.latencies)]]
    /\ UNCHANGED OutsideMeasure

NextMeasure ==
    \/ MeasureIteration
    \/ MeasureReturn

\* C16: a call in which no invocation raises invokes fn exactly
\* max(1, repeats) times and returns that many latencies with their
\* statistics; once an invocation raises, fn is not invoked again, the
\* exception is the call's outcome and nothing is returned.
C16_MeasureCallsAndPropagation ==
    /\ [](measure.pc = "returned" =>
            /\ measure.raised = NoError
            /\ measure.calls = (IF measure.repeats >= 1
                                THEN measure.repeats ELSE 1)
            /\ Len(measure.returned.latencies_ms) = measure.calls
            /\ measure.returned.stats.n = measure.calls
            /\ measure.returned.stats =
                  CalculateStats(measure.returned.latencies_ms))
    /\ [](measure.pc = "raised" =>
            /\ measure.raised \in FnErrors
            /\ measure.returned = NoMeasurement)
    /\ [][measure.pc = "raised" => measure' = measure]_vars

\* The second of three invocations raised after the first had been timed.
C16_Witness_SecondInvocationRaised ==
    /\ measure.pc = "raised"
    /\ measure.repeats = 3
    /\ measure.calls = 2
    /\ Len(measure.latencies) = 1

\* ------------------------------------------- entry: an _extract_score() call
\* The characters of a scorerun's reply: digits, the decimal point, and a
\* character that is neither.
Digits == {"0", "1", "5", "7"}

ReplyChars == Digits \cup {".", "x"}

Replies == UNION {[1..k -> ReplyChars] : k \in 0..MaxReplyLen}

DigitValue(c) ==
    CASE c = "0" -> 0 [] c = "1" -> 1 [] c = "5" -> 5 [] c = "7" -> 7

\* The position of the first digit of the text, 0 if it has none: where the
\* leftmost match of \d+\.?\d* starts.
FirstDigit(text) ==
    IF \E i \in DOMAIN text : text[i] \in Digits
    THEN CHOOSE i \in DOMAIN text :
            /\ text[i] \in Digits
            /\ \A j \in 1..(i - 1) : text[j] \notin Digits
    ELSE 0

\* The end of the longest run of digits that starts at position i; i - 1 if
\* there is no digit at i.
RECURSIVE DigitRunEnd(_, _)
DigitRunEnd(text, i) ==
    IF i <= Len(text) /\ text[i] \in Digits
    THEN DigitRunEnd(text, i + 1)
    ELSE i - 1

\* int(digits), 0 for no digits.
RECURSIVE DigitsValue(_)
DigitsValue(digits) ==
    IF digits = <<>> THEN 0
    ELSE 10 * DigitsValue(SubSeq(digits, 1, Len(digits) - 1))
         + DigitValue(digits[Len(digits)])

RECURSIVE PowerOfTen(_)
PowerOfTen(n) == IF n = 0 THEN 1 ELSE 10 * PowerOfTen(n - 1)

\* re.search(r'(\d+\.?\d*)', text): the first digit run, a point that
\* follows it, and the digits after the point; all three greedy.
ReSearch(text) ==
    LET start == FirstDigit(text)
        int_end == DigitRunEnd(text, start)
        has_point == int_end + 1 <= Len(text) /\ text[int_end + 1] = "."
        frac_end == IF has_point THEN DigitRunEnd(text, int_end + 2) ELSE int_end
    IN  IF start = 0
        THEN [found |-> FALSE, int_part |-> <<>>, frac_part |-> <<>>]
        ELSE [found |-> TRUE,
              int_part |-> SubSeq(text, start, int_end),
              frac_part |-> IF has_point THEN SubSeq(text, int_end + 2, frac_end)
                                         ELSE <<>>]

\* float(match.group(1))
Float(match) ==
    Rat(DigitsValue(match.int_part) * PowerOfTen(Len(match.frac_part))
          + DigitsValue(match.frac_part),
        PowerOfTen(Len(match.frac_part)))

\* A normalisation that scales nothing.
NormalizeScoreUnscaled(score) == score

\* if score > 1.0: score = score / 10.0
NormalizeScore(score) ==
    IF RatGt(score, One) THEN RatDiv(score, RatOf(10)) ELSE score

\* An acceptance test that lets every normalised score through.
AcceptScoreAlways(score) == Score(score)

\* if 0.0 <= score <= 1.0: return score; else None
AcceptScore(score) ==
    IF RatGeq(score, Zero) /\ RatGeq(One, score) THEN Score(score) ELSE NoScore

\* _extract_score(text)
ExtractScore(text) ==
    LET match == ReSearch(text)
    IN  IF match.found THEN AcceptScore(NormalizeScore(Float(match))) ELSE NoScore

JudgeIdle == [pc |-> "idle", text |-> <<>>, extracted |-> NoScore]

\* score = self._extract_score(response_text)
CallExtractScore ==
    /\ entry = "extract_score"
    /\ scorerun.pc = "idle"
    /\ scorerun' = [scorerun EXCEPT !.pc = "returned",
                              !.extracted = ExtractScore(scorerun.text)]
    /\ UNCHANGED <<db, session, OutsideJudge>>

NextJudge == CallExtractScore

\* The first number of the reply being examined.
FirstNumber == Float(ReSearch(scorerun.text))

\* C24 as stated: a reply whose first number is 1.5 gives no score.
C24_OnePointFiveIsUnextractable ==
    (/\ scorerun.pc = "returned"
     /\ ReSearch(scorerun.text).found
     /\ FirstNumber = Rat(3, 2)) => scorerun.extracted = NoScore

\* C24, amended: a reply whose first number is 1.5 is read as a score on the
\* 0-10 scale and gives 0.15.
C24_OnePointFiveIsScaled ==
    (/\ scorerun.pc = "returned"
     /\ ReSearch(scorerun.text).found
     /\ FirstNumber = Rat(3, 2)) => scorerun.extracted = Score(Rat(3, 20))

\* C24 witness: the reply "1.5" has been examined.
C24_Witness_ReplyOnePointFive ==
    /\ scorerun.pc = "returned"
    /\ scorerun.text = <<"1", ".", "5">>
    /\ scorerun.extracted = Score(Rat(3, 20))

\* C25: with x the first decimal number of the reply, the score is x when
\* x <= 1, x / 10 when 1 < x <= 10, and none when x > 10 or the reply has no
\* number; every score is within [0, 1]; the reply "7" gives 0.7.
C25_FirstNumberScaledIntoUnitInterval ==
    scorerun.pc = "returned" =>
        /\ ~ReSearch(scorerun.text).found => scorerun.extracted = NoScore
        /\ ReSearch(scorerun.text).found =>
              /\ RatGeq(One, FirstNumber) => scorerun.extracted = Score(FirstNumber)
              /\ (RatGt(FirstNumber, One) /\ RatGeq(RatOf(10), FirstNumber)) =>
                    scorerun.extracted = Score(RatDiv(FirstNumber, RatOf(10)))
              /\ RatGt(FirstNumber, RatOf(10)) => scorerun.extracted = NoScore
        /\ ~scorerun.extracted.is_none =>
              /\ RatGeq(scorerun.extracted.score, Zero)
              /\ RatGeq(One, scorerun.extracted.score)
        /\ scorerun.text = <<"7">> => scorerun.extracted = Score(Rat(7, 10))
        /\ scorerun.text = <<"0", ".", "7">> => scorerun.extracted = Score(Rat(7, 10))
        /\ scorerun.text = <<"x", "1", "0">> => scorerun.extracted = Score(One)
        /\ scorerun.text = <<"1", "5">> => scorerun.extracted = NoScore
        /\ scorerun.text = <<"x", ".", "x">> => scorerun.extracted = NoScore

\* C25 witness: a number above 10 after other characters was discarded.
C25_Witness_AboveTenDiscarded ==
    /\ scorerun.pc = "returned"
    /\ scorerun.text = <<"x", "1", "5">>
    /\ scorerun.extracted = NoScore

\* ------------------------------------------- entry: a calculate_stats() call
\* The values of the samples calculate_stats is run on.
StatsValues == {1, 2, 3, 4}

\* The sample of the documented example.
ExampleSample == <<100, 200, 300, 400, 500>>

\* latencies_ms: every list of up to MaxSamples values, in any order, and
\* the example.
StatsSamples ==
    UNION {[1..k -> StatsValues] : k \in 0..MaxSamples} \cup {ExampleSample}

StatsIdle == [pc |-> "idle", latencies_ms |-> <<>>, result |-> CalculateStats(<<>>)]

\* stats = LatencyEvaluator.calculate_stats(latencies_ms)
CallCalculateStats ==
    /\ entry = "stats"
    /\ statrun.pc = "idle"
    /\ statrun' = [statrun EXCEPT !.pc = "returned",
                              !.result = CalculateStats(statrun.latencies_ms)]
    /\ UNCHANGED <<db, session, OutsideStats>>

NextStats == CallCalculateStats

\* The elements of the sample.
SampleElements == {RatOf(statrun.latencies_ms[i]) : i \in DOMAIN statrun.latencies_ms}

\* The 0-based indices of an N-element list that are nearest to p/100 * (N-1).
NearestRanks(p, N) ==
    {i \in 0..(N - 1) :
        /\ 2 * (100 * i - p * (N - 1)) <= 100
        /\ 2 * (p * (N - 1) - 100 * i) <= 100}

\* The value v is the element of the sorted sample at a nearest rank of p.
AtNearestRank(v, p) ==
    \E i \in NearestRanks(p, Len(statrun.latencies_ms)) :
        v = RatOf(Sorted(statrun.latencies_ms)[i + 1])

\* C26: for a sample of N >= 1 values every percentile is the element of the
\* sorted sample at the index nearest to p/100 * (N-1), hence an element of
\* the sample, and min <= p50 <= p95 <= p99 <= max; the example sample gives
\* n = 5, mean 300, p50 300, p95 500, min 100, max 500; the empty sample
\* gives n = 0 and 0 for every statistic.
C26_PercentilesAreNearestRankElements ==
    statrun.pc = "returned" =>
        LET r == statrun.result
        IN  /\ r.n = Len(statrun.latencies_ms)
            /\ statrun.latencies_ms # <<>> =>
                  /\ AtNearestRank(r.p50_ms, 50)
                  /\ AtNearestRank(r.p95_ms, 95)
                  /\ AtNearestRank(r.p99_ms, 99)
                  /\ {r.p50_ms, r.p95_ms, r.p99_ms, r.min_ms, r.max_ms}
                        \subseteq SampleElements
                  /\ \A v \in SampleElements :
                        RatGeq(v, r.min_ms) /\ RatGeq(r.max_ms, v)
                  /\ RatGeq(r.p50_ms, r.min_ms)
                  /\ RatGeq(r.p95_ms, r.p50_ms)
                  /\ RatGeq(r.p99_ms, r.p95_ms)
                  /\ RatGeq(r.max_ms, r.p99_ms)
            /\ statrun.latencies_ms = ExampleSample =>
                  r = [n |-> 5, mean_ms |-> RatOf(300), p50_ms |-> RatOf(300),
                       p95_ms |-> RatOf(500), p99_ms |-> RatOf(500),
                       min_ms |-> RatOf(100), max_ms |-> RatOf(500)]
            /\ statrun.latencies_ms = <<>> =>
                  r = [n |-> 0, mean_ms |-> Zero, p50_ms |-> Zero, p95_ms |-> Zero,
                       p99_ms |-> Zero, min_ms |-> Zero, max_ms |-> Zero]

\* C26 witness: an unsorted sample of three different values whose median is
\* its middle value and whose p95 is its largest.
C26_Witness_UnsortedSample ==
    /\ statrun.pc = "returned"
    /\ statrun.latencies_ms = <<3, 1, 2>>
    /\ statrun.result.p50_ms = RatOf(2)
    /\ statrun.result.p95_ms = RatOf(3)
    /\ statrun.result.min_ms = RatOf(1)

\* ------------------------------------------------- entry: GET /health
\* health_check() of api/routes/health.py.  The timestamp of the response
\* (datetime.utcnow()) is left out: nothing reads it.

\* The exception of a failed get_database(): Database() could not be built.
DatabaseError == "DatabaseError"

\* The exception of a failed session.execute(text("SELECT 1")).
ExecuteError == "ExecuteError"

\* No response has been built.
NoHealthResponse == [status |-> "none", database_connected |-> FALSE,
                     version |-> "none"]

HealthIdle == [pc |-> "idle", n |-> 0, instance |-> FALSE,
               db_connected |-> FALSE, failed |-> "none", raised |-> NoError,
               logged |-> 0, outcome |-> "none",
               response |-> NoHealthResponse]

\* HealthResponse(status=..., database_connected=db_connected, version="0.1.0")
HealthResponse(db_connected) ==
    [status |-> IF db_connected THEN "healthy" ELSE "degraded",
     database_connected |-> db_connected,
     version |-> "0.1.0"]

\* An except block that lets the exception leave the handler: the request
\* fails.
HealthExceptPropagates(h) ==
    [h EXCEPT !.pc = "returned", !.outcome = "error"]

\* except Exception as e: logger.error(...); the handler goes on to return.
HealthExcept(h) ==
    [h EXCEPT !.pc = "return", !.logged = @ + 1, !.raised = NoError]

\* A request arrives: db_connected = False, the try block begins.
HealthCheckStart ==
    /\ entry = "health"
    /\ health.pc \in {"idle", "returned"}
    /\ health.n < MaxChecks
    /\ health' = [health EXCEPT !.pc = "get_database", !.n = @ + 1,
                                !.db_connected = FALSE, !.failed = "none",
                                !.raised = NoError, !.outcome = "none",
                                !.response = NoHealthResponse]
    /\ UNCHANGED <<db, session, OutsideHealth>>

\* db = get_database(): the process-wide instance if there is one, else
\* Database() is constructed, which can raise and then leaves no instance.
HealthGetDatabase ==
    /\ entry = "health"
    /\ health.pc = "get_database"
    /\ \E constructed \in BOOLEAN :
         IF health.instance \/ constructed
         THEN health' = [health EXCEPT !.pc = "with", !.instance = TRUE]
         ELSE health' = [health EXCEPT !.pc = "except",
                                       !.failed = "get_database",
                                       !.raised = DatabaseError]
    /\ UNCHANGED <<db, session, OutsideHealth>>

\* with db.get_session() as session: a new session.
HealthOpenSession ==
    /\ entry = "health"
    /\ health.pc = "with"
    /\ session' = SessionLocal
    /\ health' = [health EXCEPT !.pc = "execute"]
    /\ UNCHANGED <<db, OutsideHealth>>

\* session.execute(text("SELECT 1")): returns or raises.
HealthExecute ==
    /\ entry = "health"
    /\ health.pc = "execute"
    /\ \E ok \in BOOLEAN :
         health' = [health EXCEPT !.pc = "exit",
                                  !.raised = IF ok THEN NoError ELSE ExecuteError,
                                  !.failed = IF ok THEN "none" ELSE "execute"]
    /\ UNCHANGED <<db, session, OutsideHealth>>

\* The with block ends: get_session commits (or rolls back and re-raises)
\* and closes; db_connected = True if nothing was raised.
HealthScopeExit ==
    /\ entry = "health"
    /\ health.pc = "exit"
    /\ \E commitFails \in BOOLEAN :
         LET r == GetSessionExit(db, session, health.raised, commitFails)
         IN  /\ db' = r.db
             /\ session' = r.session
             /\ health' =
                  IF r.raised = NoError
                  THEN [health EXCEPT !.pc = "return", !.db_connected = TRUE]
                  ELSE [health EXCEPT !.pc = "except", !.raised = r.raised,
                                      !.failed = IF health.raised = NoError
                                                 THEN "commit" ELSE @]
    /\ UNCHANGED OutsideHealth

\* The except block of the handler.
HealthCatch ==
    /\ entry = "health"
    /\ health.pc = "except"
    /\ health' = HealthExcept(health)
    /\ UNCHANGED <<db, session, OutsideHealth>>

\* return HealthResponse(...)
HealthReturn ==
    /\ entry = "health"
    /\ health.pc = "return"
    /\ health' = [health EXCEPT !.pc = "returned", !.outcome = "200",
                                !.response = HealthResponse(health.db_connected)]
    /\ UNCHANGED <<db, session, OutsideHealth>>

NextHealth ==
    \/ HealthCheckStart
    \/ HealthGetDatabase
    \/ HealthOpenSession
    \/ HealthExecute
    \/ HealthScopeExit
    \/ HealthCatch
    \/ HealthReturn

\* C23: every finished GET /health returned a health response and not an
\* error; its status is "healthy" and database_connected is true exactly
\* when get_database() and the SELECT 1 round trip inside the session scope
\* (the query and the scope's commit) raised nothing; it is "degraded" with
\* database_connected false whichever of them raised; the version is
\* "0.1.0".  No request is left in an except state other than on its way to
\* the response.
C23_HealthAlwaysAnswers ==
    /\ health.outcome # "error"
    /\ health.pc = "returned" =>
         /\ health.outcome = "200"
         /\ health.response.version = "0.1.0"
         /\ health.response.status \in {"healthy", "degraded"}
         /\ (health.response.status = "healthy") <=> (health.failed = "none")
         /\ (health.response.status = "degraded") <=> (health.failed # "none")
         /\ health.response.database_connected <=> (health.failed = "none")

\* A second request whose SELECT 1 raised was answered "degraded", with the
\* session rolled back and closed.
C23_Witness_DegradedAfterExecuteFailed ==
    /\ entry = "health"
    /\ health.pc = "returned"
    /\ health.n = 2
    /\ health.failed = "execute"
    /\ health.response = HealthResponse(FALSE)
    /\ health.outcome = "200"
    /\ session.state = "closed"

\* ------------------------------------------------ entry: POST /evaluate/
\* The part of an EvaluationRequest the evaluators' branches depend on.
\* request.response and request.ground_truth: a text without an indicator or
\* one with an IP address; ground_truth can also be missing or empty.
RequestResponses == {<<"hello">>, <<"1.2.3.4">>}

RequestGroundTruths ==
    {NoGroundTruth, [given |-> TRUE, text |-> <<>>]}
    \cup {[given |-> TRUE, text |-> t] : t \in RequestResponses}

\* An EvaluationRequest, as far as the evaluators look at it;
\* has_ground_truth is the Python truth of ground_truth.
Requests ==
    {[has_ground_truth |-> Truthy(g), has_latency_ms |-> l,
      response |-> r, ground_truth |-> g] :
        g \in RequestGroundTruths, l \in BOOLEAN, r \in RequestResponses}

\* The latency_ms of a request that gives one.
RequestLatencyMs == 5

\* EvaluationResult.passed: Optional[bool].
PassedValues == {"True", "False", None}

\* metric_type, value and passed of the results one evaluator can return.
\* The scores themselves come from models and thresholds outside the handler;
\* every combination the evaluator's code can produce is allowed here.
\*   latency:    latency.py 300-329      toxicity:   toxicity.py 102-149
\*   factuality: factuality.py 186-251
\* The IOC extractor has no model behind it: its result is the one its code
\* computes from the request's texts (ioc_extractor.py 33-68).
EvaluatorResults(name, request) ==
    CASE name = "latency" ->
           IF request.has_latency_ms
           THEN {[metric_type |-> "latency", value |-> RatOf(RequestLatencyMs),
                  passed |-> p] : p \in {"True", "False"}}
           ELSE {[metric_type |-> "latency", value |-> Zero, passed |-> None]}
      [] name = "toxicity" ->
           {[metric_type |-> "toxicity", value |-> Zero, passed |-> "True"],
            [metric_type |-> "toxicity", value |-> One, passed |-> "False"]}
      [] name = "factuality" ->
           IF request.has_ground_truth
           THEN {[metric_type |-> "factuality", value |-> Zero, passed |-> "False"],
                 [metric_type |-> "factuality", value |-> One, passed |-> "True"]}
           ELSE {[metric_type |-> "factuality", value |-> Zero, passed |-> None]}
      [] name = "ioc_extraction" ->
           LET r == IOCEvaluate(request.response, request.ground_truth).result
           IN  {[metric_type |-> r.metric_type, value |-> r.value,
                 passed |-> r.passed]}

\* The ways `await evaluator.evaluate(...)` can end: a result, or an exception.
EvaluatorOutcomes(name, request) ==
    {[raised |-> FALSE, result |-> r] : r \in EvaluatorResults(name, request)}
    \cup {[raised |-> TRUE,
           result |-> [metric_type |-> name, value |-> Zero, passed |-> None]]}

ApiIdle ==
    [pc |-> "idle",
     request |-> [has_ground_truth |-> FALSE, has_latency_ms |-> FALSE,
                  response |-> <<>>, ground_truth |-> NoGroundTruth],
     db_at_start |-> EmptyDb,
     evaluation_id |-> 0,
     evaluators |-> <<>>,        \* get_evaluators()
     idx |-> 1,                  \* the position of the for loop
     outcomes |-> <<>>,          \* how each evaluate() call so far ended
     metrics_results |-> <<>>,
     all_passed |-> TRUE,
     fault |-> "none",           \* the handler step outside the loop that raised
     error |-> NoError,          \* the exception caught by the outer except
     status |-> 0,               \* the HTTP status of the response
     response |-> [evaluation_id |-> 0, metrics |-> <<>>, overall_passed |-> TRUE]]

\* An all_passed update that treats every result that is not True as failed.
UpdateAllPassedTruthy(all_passed, passed) ==
    IF passed # "True" THEN FALSE ELSE all_passed

\* if result.passed is False: all_passed = False
UpdateAllPassed(all_passed, passed) ==
    IF passed = "False" THEN FALSE ELSE all_passed

\* An evaluator exception that leaves the loop for the handler's outer except.
OnEvaluatorErrorAborts(a) ==
    [a EXCEPT !.pc = "except", !.error = "EvaluatorError"]

\* except Exception as e: logger.error(...)  -- continue with other evaluators
OnEvaluatorError(a) == a

\* One iteration of `for evaluator in evaluators`: evaluate, add_metric,
\* append the MetricResponse, update all_passed; an exception skips the rest
\* of the iteration.
HandlerLoopBody(a, d, s, outcome) ==
    LET b == [a EXCEPT !.idx = @ + 1, !.outcomes = Append(@, outcome)]
    IN  IF outcome.raised
        THEN [api |-> OnEvaluatorError(b), db |-> d, session |-> s]
        ELSE LET r == AddMetric(d, s, a.evaluation_id, outcome.result.metric_type,
                                outcome.result.value, "metadata")
             IN  [api |-> [b EXCEPT !.metrics_results = Append(@, outcome.result),
                                    !.all_passed = UpdateAllPassed(@, outcome.result.passed)],
                  db |-> r.db,
                  session |-> r.session]

\* get_db_session: db = get_database(); with db.get_session() as session: yield
ApiOpenSession ==
    /\ entry = "api"
    /\ api.pc = "idle"
    /\ session' = SessionLocal
    /\ api' = [api EXCEPT !.pc = "create", !.db_at_start = db]
    /\ UNCHANGED <<db, OutsideApi>>

\* repo.create_evaluation({...}); the flush can raise.
HandlerCreateEvaluation ==
    /\ entry = "api"
    /\ api.pc = "create"
    /\ \/ LET r == CreateEvaluation(db, session, "metadata")
          IN  /\ db' = r.db
              /\ session' = r.session
              /\ api' = [api EXCEPT !.pc = "get_evaluators", !.evaluation_id = r.id]
       \/ /\ api' = [api EXCEPT !.pc = "except", !.fault = "create",
                                !.error = "OperationalError"]
          /\ UNCHANGED <<db, session>>
    /\ UNCHANGED OutsideApi

\* evaluators = get_evaluators(); metrics_results = []; all_passed = True
HandlerGetEvaluators ==
    /\ entry = "api"
    /\ api.pc = "get_evaluators"
    /\ LET r == GetEvaluators(config)
       IN  api' = IF r.raised # NoError
                  THEN [api EXCEPT !.pc = "except", !.fault = "get_evaluators",
                                   !.error = r.raised]
                  ELSE [api EXCEPT !.pc = "loop", !.evaluators = r.evaluators,
                                   !.idx = 1, !.metrics_results = <<>>,
                                   !.all_passed = TRUE]
    /\ UNCHANGED <<db, session, OutsideApi>>

\* The next iteration of the evaluator loop.
HandlerEvaluate ==
    /\ entry = "api"
    /\ api.pc = "loop"
    /\ api.idx <= Len(api.evaluators)
    /\ \E outcome \in EvaluatorOutcomes(api.evaluators[api.idx], api.request) :
         LET r == HandlerLoopBody(api, db, session, outcome)
         IN  /\ api' = r.api
             /\ db' = r.db
             /\ session' = r.session
    /\ UNCHANGED OutsideApi

\* session.commit() after the loop.
HandlerCommit ==
    /\ entry = "api"
    /\ api.pc = "loop"
    /\ api.idx > Len(api.evaluators)
    /\ \/ LET r == SessionCommit(db, session)
          IN  /\ db' = r.db
              /\ session' = r.session
              /\ api' = [api EXCEPT !.pc = "respond"]
       \/ LET r == SessionCommitFails(db, session)
          IN  /\ db' = r.db
              /\ session' = r.session
              /\ api' = [api EXCEPT !.pc = "except", !.fault = "commit",
                                    !.error = CommitError]
    /\ UNCHANGED OutsideApi

\* return EvaluationResponse(...): reading evaluation.id and .timestamp after
\* the commit reloads the row and can raise.
HandlerRespond ==
    /\ entry = "api"
    /\ api.pc = "respond"
    /\ \/ api' = [api EXCEPT !.pc = "responded", !.status = 200,
                             !.response = [evaluation_id |-> api.evaluation_id,
                                           metrics |-> api.metrics_results,
                                           overall_passed |-> api.all_passed]]
       \/ api' = [api EXCEPT !.pc = "except", !.fault = "respond",
                             !.error = "OperationalError"]
    /\ UNCHANGED <<db, session, OutsideApi>>

\* except Exception as e: raise HTTPException(status_code=500, detail=str(e))
HandlerExcept ==
    /\ entry = "api"
    /\ api.pc = "except"
    /\ api' = [api EXCEPT !.pc = "responded", !.status = 500]
    /\ UNCHANGED <<db, session, OutsideApi>>

\* The end of get_db_session's with block: the HTTPException of a failed
\* handler is thrown into it at the yield; otherwise the scope commits a
\* transaction the handler has already committed.
ApiCloseSession ==
    /\ entry = "api"
    /\ api.pc = "responded"
    /\ LET bodyErr == IF api.status = 500 THEN "HTTPException" ELSE NoError
           r == GetSessionExit(db, session, bodyErr, FALSE)
       IN  /\ db' = r.db
           /\ session' = r.session
    /\ api' = [api EXCEPT !.pc = "done"]
    /\ UNCHANGED OutsideApi

NextApi ==
    \/ ApiOpenSession
    \/ HandlerCreateEvaluation
    \/ HandlerGetEvaluators
    \/ HandlerEvaluate
    \/ HandlerCommit
    \/ HandlerRespond
    \/ HandlerExcept
    \/ ApiCloseSession

\* The positions of the evaluators whose evaluate() returned a result.
Returned(a) == {i \in DOMAIN a.outcomes : ~a.outcomes[i].raised}

\* The committed Metric rows of the request's evaluation.
RequestMetricRows == {m \in db.metrics : m.evaluation_id = api.evaluation_id}

\* C1: whichever evaluators raise, a request none of whose other steps raises
\* is answered 200; every evaluator was invoked, in order; the Evaluation row
\* is persisted with exactly one Metric row per evaluator that returned; and
\* the response's metrics list has exactly one entry per such evaluator.
C1_EvaluatorFailuresAreSkipped ==
    (api.pc = "done" /\ api.fault = "none") =>
        /\ api.status = 200
        /\ Len(api.outcomes) = Len(api.evaluators)
        /\ \E e \in db.evaluations : e.id = api.evaluation_id
        /\ Cardinality(RequestMetricRows) = Cardinality(Returned(api))
        /\ \A i \in Returned(api) :
             Cardinality({m \in RequestMetricRows :
                            m.metric_type = api.outcomes[i].result.metric_type}) = 1
        /\ Len(api.response.metrics) = Cardinality(Returned(api))
        /\ \A i \in Returned(api) :
             Cardinality({j \in DOMAIN api.response.metrics :
                            api.response.metrics[j] = api.outcomes[i].result}) = 1
        /\ api.db_at_start.metrics \subseteq db.metrics

\* C1 witness: three evaluators, the second raised, two metric entries.
C1_Witness_SecondOfThreeRaised ==
    /\ api.pc = "done"
    /\ api.status = 200
    /\ Len(api.evaluators) = 3
    /\ Len(api.outcomes) = 3
    /\ Returned(api) = {1, 3}
    /\ Len(api.response.metrics) = 2
    /\ Cardinality(RequestMetricRows) = 2

\* C2: overall_passed is false exactly when some metric of the response has
\* passed = false; None and true never make it false, and an empty list
\* gives true.
C2_OverallPassedIffNoFalse ==
    api.status = 200 =>
        (api.response.overall_passed
            <=> \A j \in DOMAIN api.response.metrics :
                   api.response.metrics[j].passed # "False")

\* C2 witness: one metric failed, another is indeterminate.
C2_Witness_OneFalseRestNone ==
    /\ api.status = 200
    /\ ~api.response.overall_passed
    /\ Cardinality({j \in DOMAIN api.response.metrics :
                      api.response.metrics[j].passed = "False"}) = 1
    /\ \E j \in DOMAIN api.response.metrics : api.response.metrics[j].passed = None

\* The request's Evaluation row is among the committed rows.
RequestEvaluationCommitted ==
    \E e \in db.evaluations : e.id = api.evaluation_id

\* C18: the handler commits once, after the evaluator loop has ended: no
\* Evaluation or Metric row of the request is committed while an evaluator
\* is still to run, and from the commit on the Evaluation row and the Metric
\* row of every evaluator that returned are committed together.
C18_RowsCommittedTogether ==
    /\ (RequestEvaluationCommitted \/ RequestMetricRows # {}) =>
          /\ api.pc \in {"respond", "except", "responded", "done"}
          /\ api.fault \in {"none", "respond"}
          /\ Len(api.outcomes) = Len(api.evaluators)
          /\ RequestEvaluationCommitted
          /\ Cardinality(RequestMetricRows) = Cardinality(Returned(api))
    /\ api.pc \in {"create", "get_evaluators", "loop"} =>
          /\ db.evaluations = api.db_at_start.evaluations
          /\ db.metrics = api.db_at_start.metrics

\* C18 witness: the commit has just made the Evaluation row and two Metric
\* rows visible at once, after an evaluator had raised.
C18_Witness_ThreeRowsAtOnce ==
    /\ api.pc = "respond"
    /\ RequestEvaluationCommitted
    /\ Cardinality(RequestMetricRows) = 2
    /\ Cardinality(Returned(api)) = 2
    /\ Len(api.outcomes) = 3
    /\ Cardinality(db.evaluations) = Cardinality(api.db_at_start.evaluations) + 1
    /\ Cardinality(db.metrics) = Cardinality(api.db_at_start.metrics) + 2

\* The evaluate() call of the IOC extractor did not raise.
IocExtractorReturned ==
    \A i \in DOMAIN api.outcomes :
        api.evaluators[i] = "ioc_extraction" => ~api.outcomes[i].raised

\* C30: a request with a non-empty ground_truth whose response holds no
\* indicator is answered, when it is answered 200 and the IOC extractor's
\* call returned, with an ioc_extraction_f1 metric of value 0 and passed =
\* false and with overall_passed = false, whatever the other evaluators gave.
C30_NoIndicatorFailsOverall ==
    (/\ api.status = 200
     /\ Truthy(api.request.ground_truth)
     /\ Flatten(ExtractIocs(api.request.response)) = {}
     /\ IocExtractorReturned) =>
        /\ ~api.response.overall_passed
        /\ \E j \in DOMAIN api.response.metrics :
              /\ api.response.metrics[j].metric_type = "ioc_extraction_f1"
              /\ api.response.metrics[j].value = Zero
              /\ api.response.metrics[j].passed = "False"

\* C30 witness: every other evaluator passed, the ground truth holds an
\* indicator the response lacks, and the response is overall_passed = false.
C30_Witness_OnlyIocFailed ==
    /\ api.status = 200
    /\ api.request.ground_truth = [given |-> TRUE, text |-> <<"1.2.3.4">>]
    /\ api.request.response = <<"hello">>
    /\ Len(api.response.metrics) = 4
    /\ ~api.response.overall_passed
    /\ Cardinality({j \in DOMAIN api.response.metrics :
                      api.response.metrics[j].passed = "True"}) = 3

\* The committed Metric rows of the request with a smaller id than m: the
\* rows add_metric wrote before it.
EarlierRows(m) == {n \in RequestMetricRows : n.id < m.id}

\* C28: whenever the request is answered 500, its session has been rolled
\* back and none of the rows it created is committed, whichever step raised.
C28_ServerErrorPersistsNothing ==
    (api.pc = "done" /\ api.status = 500) =>
        /\ \E i \in DOMAIN session.calls : session.calls[i] = "rollback"
        /\ db.evaluations = api.db_at_start.evaluations
        /\ db.metrics = api.db_at_start.metrics

\* C29: after a 200 response the committed Metric rows of the returned
\* evaluation_id are, in the order add_metric wrote them, the entries of the
\* response's metrics list, with the same metric_type and value.
C29_RowsMatchResponseInOrder ==
    (api.pc \in {"responded", "done"} /\ api.status = 200) =>
        /\ Cardinality(RequestMetricRows) = Len(api.response.metrics)
        /\ \A m \in RequestMetricRows :
              LET j == Cardinality(EarlierRows(m)) + 1
              IN  /\ j \in DOMAIN api.response.metrics
                  /\ m.metric_type = api.response.metrics[j].metric_type
                  /\ m.value = api.response.metrics[j].value
        /\ \A e \in db.evaluations \ api.db_at_start.evaluations :
              e.id = api.response.evaluation_id

\* C29 witness: a 200 response with three metrics, three rows committed.
C29_Witness_ThreeMetricsThreeRows ==
    /\ api.pc = "done"
    /\ api.status = 200
    /\ Len(api.response.metrics) = 3
    /\ Cardinality(RequestMetricRows) = 3
    /\ \E j \in DOMAIN api.response.metrics : api.response.metrics[j].value # Zero

\* ------------------------------------------------- entry: the dashboard
\* main() of monitoring/dashboard.py, run by Streamlit from the top on the
\* first page load, after every interaction with a widget, and after
\* st.rerun().  Timestamps are not modelled: the summary is over the rows
\* there are.

\* The choices of the "Time Window" selectbox, in hours.
TimeWindows == {1, 6, 12, 24, 48, 168}

\* index=3 of the selectbox.
DefaultTimeWindow == 24

\* limit=10 of load_data's get_recent_evaluations call.
RecentLimit == 10

\* Nothing loaded.
NoData == [kind |-> "none", hours |-> 0, evaluations |-> 0, metric_types |-> {}]

\* The error message of the except block of main().
ErrorShown == [kind |-> "error", hours |-> 0, evaluations |-> 0,
               metric_types |-> {}]

\* What can go wrong in load_data().
LoadFaults == {"none", "get_database", "query", "commit"}

\* repo.get_recent_evaluations(limit): how many rows come back.
GetRecentEvaluations(d, limit) ==
    IF Cardinality(d.evaluations) < limit THEN Cardinality(d.evaluations)
    ELSE limit

\* repo.get_metrics_summary(hours): one entry per metric type.
GetMetricsSummary(d, hours) ==
    {m.metric_type : m \in d.metrics}

\* load_data(hours): (evaluations, metrics_summary).
LoadData(d, hours) ==
    [kind |-> "data", hours |-> hours,
     evaluations |-> GetRecentEvaluations(d, RecentLimit),
     metric_types |-> GetMetricsSummary(d, hours)]

\* pc: where the script thread is ("done": the run has ended and the page
\* waits for an interaction).  time_window, auto_refresh: the widgets'
\* values.  trigger: what started the current run.  loaded: what load_data
\* returned in the current run.  shown: the data part of the page.
DashIdle == [pc |-> "run", time_window |-> DefaultTimeWindow,
             auto_refresh |-> FALSE, trigger |-> "first",
             loaded |-> NoData, shown |-> NoData]

\* if auto_refresh: ... time.sleep(30); st.rerun()  -- else on to load_data.
AutoRefreshBranch(auto_refresh) ==
    IF auto_refresh THEN "sleep" ELSE "load"

\* The run begins: title, sidebar header, the two widgets with their values.
DashRunStart ==
    /\ entry = "dashboard"
    /\ dash.pc = "run"
    /\ dash' = [dash EXCEPT !.pc = "widgets", !.loaded = NoData]
    /\ UNCHANGED <<db, session, OutsideDashboard>>

\* if auto_refresh:
DashAutoRefreshBranch ==
    /\ entry = "dashboard"
    /\ dash.pc = "widgets"
    /\ dash' = [dash EXCEPT !.pc = AutoRefreshBranch(dash.auto_refresh)]
    /\ UNCHANGED <<db, session, OutsideDashboard>>

\* st.sidebar.info(...); time.sleep(30) returns.
DashSleep ==
    /\ entry = "dashboard"
    /\ dash.pc = "sleep"
    /\ dash' = [dash EXCEPT !.pc = "rerun"]
    /\ UNCHANGED <<db, session, OutsideDashboard>>

\* st.rerun(): the run stops here and the script starts again from the top;
\* what the page showed stays until a run replaces it.
DashRerun ==
    /\ entry = "dashboard"
    /\ dash.pc = "rerun"
    /\ dash' = [dash EXCEPT !.pc = "run", !.trigger = "auto_refresh"]
    /\ UNCHANGED <<db, session, OutsideDashboard>>

\* evaluations, metrics_summary = load_data(hours=time_window), inside the
\* try of main(): a get_session() scope around the two queries.
DashLoadData ==
    /\ entry = "dashboard"
    /\ dash.pc = "load"
    /\ \E fault \in LoadFaults :
         IF fault = "get_database"
         THEN /\ dash' = [dash EXCEPT !.pc = "except"]
              /\ UNCHANGED <<db, session>>
         ELSE LET r == GetSessionExit(db, SessionLocal,
                           IF fault = "query" THEN "OperationalError"
                           ELSE NoError,
                           fault = "commit")
              IN  /\ db' = r.db
                  /\ session' = r.session
                  /\ dash' = IF r.raised = NoError
                             THEN [dash EXCEPT !.pc = "render",
                                     !.loaded = LoadData(db, dash.time_window)]
                             ELSE [dash EXCEPT !.pc = "except"]
    /\ UNCHANGED OutsideDashboard

\* The top metrics, charts and tables are drawn from what was loaded; the
\* run ends.
DashRender ==
    /\ entry = "dashboard"
    /\ dash.pc = "render"
    /\ dash' = [dash EXCEPT !.pc = "done", !.shown = dash.loaded]
    /\ UNCHANGED <<db, session, OutsideDashboard>>

\* except Exception as e: st.error(...); st.info(...); the run ends.
DashExcept ==
    /\ entry = "dashboard"
    /\ dash.pc = "except"
    /\ dash' = [dash EXCEPT !.pc = "done", !.shown = ErrorShown]
    /\ UNCHANGED <<db, session, OutsideDashboard>>

\* The user picks a time window.  A finished page reruns the script; a
\* script asleep in the auto-refresh branch sees the new value on its next
\* run.
UserSelectsTimeWindow ==
    /\ entry = "dashboard"
    /\ dash.pc \in {"done", "sleep"}
    /\ \E w \in TimeWindows \ {dash.time_window} :
         dash' = [dash EXCEPT !.time_window = w,
                    !.pc = IF dash.pc = "done" THEN "run" ELSE @,
                    !.trigger = IF dash.pc = "done" THEN "interaction" ELSE @]
    /\ UNCHANGED <<db, session, OutsideDashboard>>

\* The user ticks or unticks "Auto-refresh (30s)".
UserTogglesAutoRefresh ==
    /\ entry = "dashboard"
    /\ dash.pc \in {"done", "sleep"}
    /\ dash' = [dash EXCEPT !.auto_refresh = ~@,
                  !.pc = IF dash.pc = "done" THEN "run" ELSE @,
                  !.trigger = IF dash.pc = "done" THEN "interaction" ELSE @]
    /\ UNCHANGED <<db, session, OutsideDashboard>>

\* The steps of the script thread.
DashScript ==
    \/ DashRunStart
    \/ DashAutoRefreshBranch
    \/ DashSleep
    \/ DashRerun
    \/ DashLoadData
    \/ DashRender
    \/ DashExcept

NextDashboard ==
    \/ DashRunStart
    \/ DashAutoRefreshBranch
    \/ DashSleep
    \/ DashRerun
    \/ DashLoadData
    \/ DashRender
    \/ DashExcept
    \/ UserSelectsTimeWindow
    \/ UserTogglesAutoRefresh

\* A run started by the auto-refresh reload, with the toggle still on, has
\* loaded the data for the selected window and shows it.
RefreshCycleRendered ==
    /\ dash.auto_refresh
    /\ dash.trigger = "auto_refresh"
    /\ dash.pc = "done"
    /\ dash.shown = LoadData(db, dash.time_window)

\* C21: with auto-refresh left enabled, refresh cycles keep rendering: again
\* and again a run started by the 30-second reload loads the recent
\* evaluations and the summary for the selected window and displays them.
C21_AutoRefreshCyclesRender ==
    (<>[]dash.auto_refresh) => []<>RefreshCycleRendered

\* ------------------------------------------- entry: the batch runner's main
\* run_smoke_eval.py: main() walks the golden datasets and hands each file
\* that exists to run_evaluation_batch, which evaluates its records one by
\* one, each in a get_session() scope of its own.

\* datasets, in the order main() lists them.
Datasets == <<"smoke.jsonl", "threat_intel.jsonl", "malware_analysis.jsonl">>

DatasetNames == {Datasets[i] : i \in DOMAIN Datasets}

\* The registry configurations the runner is exercised with: latency and the
\* IOC extractor, or a null section that makes get_evaluators() raise.
BatchConfigs ==
    {[latency |-> "no_flag", toxicity |-> "enabled_false",
      factuality |-> "enabled_false"],
     [latency |-> "no_flag", toxicity |-> "null", factuality |-> "enabled_false"]}

\* What each record hands to the evaluators: test_case.get('ground_truth')
\* (None here) and the elapsed time as latency_ms.
BatchRequest == [has_ground_truth |-> FALSE, has_latency_ms |-> TRUE,
                 response |-> <<"hello">>, ground_truth |-> NoGroundTruth]

\* Exceptions raised while the dict for create_evaluation is built or the
\* row is flushed: a record without 'prompt' or 'response', a failed INSERT.
CreateErrors == {"KeyError", "OperationalError"}

\* The files on disk and the number of records of each: any subset of the
\* three files with one record each, or a single file with up to MaxRecords
\* records.
BatchInputs ==
    {[exists |-> e, size |-> [n \in DatasetNames |-> 1]] :
        e \in SUBSET DatasetNames}
    \cup {[exists |-> {n}, size |-> [m \in DatasetNames |-> k]] :
            n \in DatasetNames, k \in 0..MaxRecords}

BatchIdle ==
    [pc |-> "main",
     exists |-> {},              \* the dataset files that exist
     size |-> [n \in DatasetNames |-> 0],
     ds |-> 1,                   \* the position of main()'s for loop
     started |-> <<>>,           \* datasets run_evaluation_batch was called on
     skipped |-> <<>>,           \* datasets reported as not found
     failures |-> <<>>,          \* what main()'s except clause logged
     all_results |-> <<>>,       \* the items of all_results, in insertion order
     summary |-> <<>>,           \* the lines of the overall summary
     fault |-> "none",           \* what ended the last run_evaluation_batch
     evaluators |-> <<>>,
     rec |-> 1,                  \* i of enumerate(test_cases, 1)
     db_at_record |-> EmptyDb,   \* the committed tables when record i began
     evaluation_id |-> 0,
     idx |-> 1,                  \* the position of the evaluator loop
     outcomes |-> <<>>,          \* how each evaluate() call of record i ended
     eval_results |-> <<>>,
     committed |-> <<>>,         \* the records of this dataset whose commit returned
     results |-> <<>>]

\* An except clause that leaves the dataset loop.
MainExceptBreaks(b, fault) ==
    [b EXCEPT !.pc = "main", !.ds = Len(Datasets) + 1, !.fault = fault,
              !.failures = Append(@, [dataset |-> Datasets[b.ds], fault |-> fault,
                                      test_case_id |-> b.rec])]

\* except Exception as e: logger.error(f"Failed to process ...") and on to
\* the next dataset.
MainExcept(b, fault) ==
    [b EXCEPT !.pc = "main", !.ds = @ + 1, !.fault = fault,
              !.failures = Append(@, [dataset |-> Datasets[b.ds], fault |-> fault,
                                      test_case_id |-> b.rec])]

\* for dataset_path in datasets: if dataset_path.exists(): ... else: warning
MainNextDataset ==
    /\ entry = "batch"
    /\ batch.pc = "main"
    /\ batch.ds <= Len(Datasets)
    /\ batch' = IF Datasets[batch.ds] \in batch.exists
                THEN [batch EXCEPT !.pc = "load", !.fault = "none",
                                   !.started = Append(@, Datasets[batch.ds])]
                ELSE [batch EXCEPT !.ds = @ + 1,
                                   !.skipped = Append(@, Datasets[batch.ds])]
    /\ UNCHANGED <<db, session, OutsideBatch>>

\* run_evaluation_batch up to its for loop: read and parse the file, which
\* can raise, then get_evaluators() and get_database().
BatchLoad ==
    /\ entry = "batch"
    /\ batch.pc = "load"
    /\ LET b == [batch EXCEPT !.rec = 0, !.results = <<>>, !.committed = <<>>]
           r == GetEvaluators(config)
       IN  \/ batch' = MainExcept(b, "load")
           \/ batch' = IF r.raised # NoError
                       THEN MainExcept(b, "get_evaluators")
                       ELSE [b EXCEPT !.pc = "record", !.rec = 1,
                                      !.evaluators = r.evaluators]
    /\ UNCHANGED <<db, session, OutsideBatch>>

\* The next record: with db.get_session() as session.
BatchOpenSession ==
    /\ entry = "batch"
    /\ batch.pc = "record"
    /\ batch.rec <= batch.size[Datasets[batch.ds]]
    /\ session' = SessionLocal
    /\ batch' = [batch EXCEPT !.pc = "create", !.db_at_record = db,
                              !.evaluation_id = 0, !.idx = 1,
                              !.outcomes = <<>>, !.eval_results = <<>>]
    /\ UNCHANGED <<db, OutsideBatch>>

\* repo.create_evaluation({... test_case['prompt'], test_case['response']
\* ...}); an exception leaves the with block, which rolls back, and
\* run_evaluation_batch.
BatchCreateEvaluation ==
    /\ entry = "batch"
    /\ batch.pc = "create"
    /\ \/ LET r == CreateEvaluation(db, session, "metadata")
          IN  /\ db' = r.db
              /\ session' = r.session
              /\ batch' = [batch EXCEPT !.pc = "loop", !.evaluation_id = r.id]
       \/ \E err \in CreateErrors :
            LET r == GetSessionExit(db, session, err, FALSE)
            IN  /\ db' = r.db
                /\ session' = r.session
                /\ batch' = MainExcept(batch, err)
    /\ UNCHANGED OutsideBatch

\* One iteration of `for evaluator in evaluators`: evaluate, add_metric and
\* eval_results[result.metric_type] = result.value, or the logged exception.
BatchEvaluate ==
    /\ entry = "batch"
    /\ batch.pc = "loop"
    /\ batch.idx <= Len(batch.evaluators)
    /\ \E outcome \in EvaluatorOutcomes(batch.evaluators[batch.idx], BatchRequest) :
         LET b == [batch EXCEPT !.idx = @ + 1, !.outcomes = Append(@, outcome)]
         IN  IF outcome.raised
             THEN /\ batch' = b
                  /\ UNCHANGED <<db, session>>
             ELSE LET r == AddMetric(db, session, batch.evaluation_id,
                                     outcome.result.metric_type,
                                     outcome.result.value, "metadata")
                  IN  /\ db' = r.db
                      /\ session' = r.session
                      /\ batch' = [b EXCEPT !.eval_results =
                                       Append(@, [metric_type |-> outcome.result.metric_type,
                                                  value |-> outcome.result.value])]
    /\ UNCHANGED OutsideBatch

\* session.commit() after the evaluator loop.
BatchCommit ==
    /\ entry = "batch"
    /\ batch.pc = "loop"
    /\ batch.idx > Len(batch.evaluators)
    /\ \/ LET r == SessionCommit(db, session)
          IN  /\ db' = r.db
              /\ session' = r.session
              /\ batch' = [batch EXCEPT !.pc = "append",
                              !.committed = Append(@,
                                  [test_case_id |-> batch.rec,
                                   evaluation_id |-> batch.evaluation_id,
                                   metric_types |-> {batch.eval_results[j].metric_type :
                                                       j \in DOMAIN batch.eval_results}])]
       \/ LET c == SessionCommitFails(db, session)
              r == GetSessionExit(c.db, c.session, CommitError, FALSE)
          IN  /\ db' = r.db
              /\ session' = r.session
              /\ batch' = MainExcept(batch, "commit")
    /\ UNCHANGED OutsideBatch

\* results.append({... 'evaluation_id': evaluation.id ...}) and the end of
\* the with block.  The commit has expired the Evaluation object, so reading
\* its id reloads the row, which can raise.
BatchAppendResult ==
    /\ entry = "batch"
    /\ batch.pc = "append"
    /\ \/ LET r == GetSessionExit(db, session, NoError, FALSE)
          IN  /\ db' = r.db
              /\ session' = r.session
              /\ batch' = [batch EXCEPT !.pc = "record", !.rec = @ + 1,
                              !.results = Append(@,
                                  [test_case_id |-> batch.rec,
                                   evaluation_id |-> batch.evaluation_id,
                                   metrics |-> batch.eval_results])]
       \/ LET r == GetSessionExit(db, session, "OperationalError", FALSE)
          IN  /\ db' = r.db
              /\ session' = r.session
              /\ batch' = MainExcept(batch, "evaluation_id")
    /\ UNCHANGED OutsideBatch

\* The summary of run_evaluation_batch, return results, and
\* all_results[dataset_path.name] = results.
BatchReturn ==
    /\ entry = "batch"
    /\ batch.pc = "record"
    /\ batch.rec > batch.size[Datasets[batch.ds]]
    /\ batch' = [batch EXCEPT !.pc = "main", !.ds = @ + 1,
                    !.all_results = Append(@, [dataset |-> Datasets[batch.ds],
                                               results |-> batch.results])]
    /\ UNCHANGED <<db, session, OutsideBatch>>

\* The overall summary: one line for each item of all_results.
MainSummary ==
    /\ entry = "batch"
    /\ batch.pc = "main"
    /\ batch.ds > Len(Datasets)
    /\ batch' = [batch EXCEPT !.pc = "finished",
                    !.summary = [j \in DOMAIN batch.all_results |->
                                    [dataset |-> batch.all_results[j].dataset,
                                     evaluations |-> Len(batch.all_results[j].results)]]]
    /\ UNCHANGED <<db, session, OutsideBatch>>

NextBatch ==
    \/ MainNextDataset
    \/ BatchLoad
    \/ BatchOpenSession
    \/ BatchCreateEvaluation
    \/ BatchEvaluate
    \/ BatchCommit
    \/ BatchAppendResult
    \/ BatchReturn
    \/ MainSummary

\* The dataset files that exist, in main()'s order.
ExistingDatasets == SelectSeq(Datasets, LAMBDA n : n \in batch.exists)

\* The datasets whose run_evaluation_batch call ended in main()'s except.
FailedDatasets == {batch.failures[j].dataset : j \in DOMAIN batch.failures}

\* C19: main() hands the existing datasets to run_evaluation_batch in the
\* order smoke, threat_intel, malware_analysis and skips the missing ones; an
\* exception in one dataset does not keep the later ones from being
\* processed; and the overall summary lists exactly the datasets whose
\* processing returned without an exception.
C19_DatasetsInOrderErrorsContained ==
    /\ Len(batch.started) <= Len(ExistingDatasets)
    /\ batch.started = SubSeq(ExistingDatasets, 1, Len(batch.started))
    /\ batch.pc = "finished" =>
          /\ batch.started = ExistingDatasets
          /\ batch.skipped = SelectSeq(Datasets, LAMBDA n : n \notin batch.exists)
          /\ [j \in DOMAIN batch.summary |-> batch.summary[j].dataset]
                = SelectSeq(batch.started, LAMBDA n : n \notin FailedDatasets)
          /\ \A j \in DOMAIN batch.summary :
                batch.summary[j].evaluations = batch.size[batch.summary[j].dataset]

\* C19 witness: the first dataset failed, the second is missing, the third
\* was processed and is the only one in the summary.
C19_Witness_FailedSkippedCompleted ==
    /\ batch.pc = "finished"
    /\ batch.exists = {"smoke.jsonl", "malware_analysis.jsonl"}
    /\ FailedDatasets = {"smoke.jsonl"}
    /\ batch.skipped = <<"threat_intel.jsonl">>
    /\ batch.started = <<"smoke.jsonl", "malware_analysis.jsonl">>
    /\ batch.summary = <<[dataset |-> "malware_analysis.jsonl", evaluations |-> 1]>>

\* The committed rows of one evaluation.
MetricRowsOf(eval_id) == {m \in db.metrics : m.evaluation_id = eval_id}

\* The records of the current dataset whose rows are committed as they were
\* when their commit returned.
StaysPersisted(c) ==
    /\ \E e \in db.evaluations : e.id = c.evaluation_id
    /\ {m.metric_type : m \in MetricRowsOf(c.evaluation_id)} = c.metric_types
    /\ Cardinality(MetricRowsOf(c.evaluation_id)) = Cardinality(c.metric_types)

\* The faults that end a record outside the per-evaluator try/except.
RecordFaults == CreateErrors \cup {"commit", "evaluation_id"}

\* C20: each record is its own transaction.  The rows of record k are
\* committed before record k+1 begins; a record that raises outside the
\* per-evaluator catch leaves no committed row of its own while the rows of
\* records 1..k-1 stay; and an evaluator that raises on record k only takes
\* its own metric out of record k.
C20_EachRecordItsOwnTransaction ==
    /\ batch.pc \in {"create", "loop"} =>
          /\ Len(batch.committed) = batch.rec - 1
          /\ db.evaluations = batch.db_at_record.evaluations
          /\ db.metrics = batch.db_at_record.metrics
    /\ \A j \in DOMAIN batch.committed :
          batch.committed[j].test_case_id < batch.rec
             => StaysPersisted(batch.committed[j])
    /\ batch.pc = "append" =>
          /\ Len(batch.outcomes) = Len(batch.evaluators)
          /\ StaysPersisted(batch.committed[batch.rec])
          /\ batch.committed[batch.rec].metric_types
                = {batch.outcomes[i].result.metric_type :
                     i \in {i \in DOMAIN batch.outcomes : ~batch.outcomes[i].raised}}
    /\ batch.fault \in RecordFaults =>
          /\ db.evaluations = batch.db_at_record.evaluations
          /\ db.metrics = batch.db_at_record.metrics

\* ------------------------------------------------------------ specification
\* The evaluators sections the API entry is run with: every combination of
\* enabled and disabled evaluators, and one with a null section.
ApiConfigs ==
    {c \in Configs : \A n \in DOMAIN c : c[n] \in {"no_flag", "enabled_false"}}
    \cup {[DefaultConfig EXCEPT !["toxicity"] = "null"]}

\* Tables holding the rows of an earlier request.
SeededDb ==
    [evaluations |-> {EvaluationRow(1, "metadata")},
     metrics |-> {MetricRow(1, 1, "toxicity", Zero, "metadata")},
     eval_seq |-> 1, metric_seq |-> 1]

\* The state of the storage layer before anything has used it.
InitStorage ==
    /\ db = EmptyDb
    /\ session = NoSession
    /\ scope = ScopeIdle

InitSessionScope ==
    /\ entry = "session_scope"
    /\ InitStorage
    /\ config = DefaultConfig
    /\ registry = RegistryIdle
    /\ api = ApiIdle
    /\ router = RouterIdle
    /\ loader = LoaderIdle
    /\ singleton = SingletonIdle
    /\ evalrun = EvalIdle
    /\ latency = LatencyIdle
    /\ toxicity = ToxicityIdle
    /\ measure = MeasureIdle
    /\ batch = BatchIdle
    /\ statrun = StatsIdle
    /\ scorerun = JudgeIdle
    /\ health = HealthIdle
    /\ dash = DashIdle

InitRegistry ==
    /\ entry = "registry"
    /\ InitStorage
    /\ config \in Configs
    /\ registry = RegistryIdle
    /\ api = ApiIdle
    /\ router = RouterIdle
    /\ loader = LoaderIdle
    /\ singleton = SingletonIdle
    /\ evalrun = EvalIdle
    /\ latency = LatencyIdle
    /\ toxicity = ToxicityIdle
    /\ measure = MeasureIdle
    /\ batch = BatchIdle
    /\ statrun = StatsIdle
    /\ scorerun = JudgeIdle
    /\ health = HealthIdle
    /\ dash = DashIdle

InitApi ==
    /\ entry = "api"
    /\ db \in {EmptyDb, SeededDb}
    /\ session = NoSession
    /\ scope = ScopeIdle
    /\ config \in ApiConfigs
    /\ registry = RegistryIdle
    /\ \E request \in Requests : api = [ApiIdle EXCEPT !.request = request]
    /\ router = RouterIdle
    /\ loader = LoaderIdle
    /\ singleton = SingletonIdle
    /\ evalrun = EvalIdle
    /\ latency = LatencyIdle
    /\ toxicity = ToxicityIdle
    /\ measure = MeasureIdle
    /\ batch = BatchIdle
    /\ statrun = StatsIdle
    /\ scorerun = JudgeIdle
    /\ health = HealthIdle
    /\ dash = DashIdle

InitRouter ==
    /\ entry = "router"
    /\ InitStorage
    /\ config = DefaultConfig
    /\ registry = RegistryIdle
    /\ api = ApiIdle
    /\ \E n \in 0..MaxRetries, p \in ProviderNames :
         router = [RouterIdle EXCEPT !.max_retries = n, !.provider_name = p]
    /\ loader = LoaderIdle
    /\ singleton = SingletonIdle
    /\ evalrun = EvalIdle
    /\ latency = LatencyIdle
    /\ toxicity = ToxicityIdle
    /\ measure = MeasureIdle
    /\ batch = BatchIdle
    /\ statrun = StatsIdle
    /\ scorerun = JudgeIdle
    /\ health = HealthIdle
    /\ dash = DashIdle

InitLoader ==
    /\ entry = "config_loader"
    /\ InitStorage
    /\ config = DefaultConfig
    /\ registry = RegistryIdle
    /\ api = ApiIdle
    /\ router = RouterIdle
    /\ \E e \in AppEnvValues : loader = [LoaderIdle EXCEPT !.app_env = e]
    /\ singleton = SingletonIdle
    /\ evalrun = EvalIdle
    /\ latency = LatencyIdle
    /\ toxicity = ToxicityIdle
    /\ measure = MeasureIdle
    /\ batch = BatchIdle
    /\ statrun = StatsIdle
    /\ scorerun = JudgeIdle
    /\ health = HealthIdle
    /\ dash = DashIdle

InitSingleton ==
    /\ entry = "db_singleton"
    /\ InitStorage
    /\ config = DefaultConfig
    /\ registry = RegistryIdle
    /\ api = ApiIdle
    /\ router = RouterIdle
    /\ loader = LoaderIdle
    /\ \E m \in ProcessKinds : singleton = SingletonStart(m)
    /\ evalrun = EvalIdle
    /\ latency = LatencyIdle
    /\ toxicity = ToxicityIdle
    /\ measure = MeasureIdle
    /\ batch = BatchIdle
    /\ statrun = StatsIdle
    /\ scorerun = JudgeIdle
    /\ health = HealthIdle
    /\ dash = DashIdle

InitEvaluator ==
    /\ entry = "evaluator"
    /\ InitStorage
    /\ config = DefaultConfig
    /\ registry = RegistryIdle
    /\ api = ApiIdle
    /\ router = RouterIdle
    /\ loader = LoaderIdle
    /\ singleton = SingletonIdle
    /\ evalrun \in EvalInputs
    /\ latency = LatencyIdle
    /\ toxicity = ToxicityIdle
    /\ measure = MeasureIdle
    /\ batch = BatchIdle
    /\ statrun = StatsIdle
    /\ scorerun = JudgeIdle
    /\ health = HealthIdle
    /\ dash = DashIdle

InitLatency ==
    /\ entry = "latency"
    /\ InitStorage
    /\ config = DefaultConfig
    /\ registry = RegistryIdle
    /\ api = ApiIdle
    /\ router = RouterIdle
    /\ loader = LoaderIdle
    /\ singleton = SingletonIdle
    /\ evalrun = EvalIdle
    /\ latency \in LatencyInputs
    /\ toxicity = ToxicityIdle
    /\ measure = MeasureIdle
    /\ batch = BatchIdle
    /\ statrun = StatsIdle
    /\ scorerun = JudgeIdle
    /\ health = HealthIdle
    /\ dash = DashIdle

InitToxicity ==
    /\ entry = "toxicity"
    /\ InitStorage
    /\ config = DefaultConfig
    /\ registry = RegistryIdle
    /\ api = ApiIdle
    /\ router = RouterIdle
    /\ loader = LoaderIdle
    /\ singleton = SingletonIdle
    /\ evalrun = EvalIdle
    /\ latency = LatencyIdle
    /\ toxicity \in ToxicityInputs
    /\ measure = MeasureIdle
    /\ batch = BatchIdle
    /\ statrun = StatsIdle
    /\ scorerun = JudgeIdle
    /\ health = HealthIdle
    /\ dash = DashIdle

InitMeasure ==
    /\ entry = "measure"
    /\ InitStorage
    /\ config = DefaultConfig
    /\ registry = RegistryIdle
    /\ api = ApiIdle
    /\ router = RouterIdle
    /\ loader = LoaderIdle
    /\ singleton = SingletonIdle
    /\ evalrun = EvalIdle
    /\ latency = LatencyIdle
    /\ toxicity = ToxicityIdle
    /\ measure \in MeasureInputs
    /\ batch = BatchIdle
    /\ statrun = StatsIdle
    /\ scorerun = JudgeIdle
    /\ health = HealthIdle
    /\ dash = DashIdle

InitJudge ==
    /\ entry = "extract_score"
    /\ InitStorage
    /\ config = DefaultConfig
    /\ registry = RegistryIdle
    /\ api = ApiIdle
    /\ router = RouterIdle
    /\ loader = LoaderIdle
    /\ singleton = SingletonIdle
    /\ evalrun = EvalIdle
    /\ latency = LatencyIdle
    /\ toxicity = ToxicityIdle
    /\ measure = MeasureIdle
    /\ batch = BatchIdle
    /\ statrun = StatsIdle
    /\ \E text \in Replies : scorerun = [JudgeIdle EXCEPT !.text = text]
    /\ health = HealthIdle
    /\ dash = DashIdle

InitDashboard ==
    /\ entry = "dashboard"
    /\ db \in {EmptyDb, SeededDb}
    /\ session = NoSession
    /\ scope = ScopeIdle
    /\ config = DefaultConfig
    /\ registry = RegistryIdle
    /\ api = ApiIdle
    /\ router = RouterIdle
    /\ loader = LoaderIdle
    /\ singleton = SingletonIdle
    /\ evalrun = EvalIdle
    /\ latency = LatencyIdle
    /\ toxicity = ToxicityIdle
    /\ measure = MeasureIdle
    /\ batch = BatchIdle
    /\ statrun = StatsIdle
    /\ scorerun = JudgeIdle
    /\ health = HealthIdle
    /\ dash = DashIdle

InitHealth ==
    /\ entry = "health"
    /\ InitStorage
    /\ config = DefaultConfig
    /\ registry = RegistryIdle
    /\ api = ApiIdle
    /\ router = RouterIdle
    /\ loader = LoaderIdle
    /\ singleton = SingletonIdle
    /\ evalrun = EvalIdle
    /\ latency = LatencyIdle
    /\ toxicity = ToxicityIdle
    /\ measure = MeasureIdle
    /\ batch = BatchIdle
    /\ statrun = StatsIdle
    /\ scorerun = JudgeIdle
    /\ health = HealthIdle
    /\ dash = DashIdle

InitStats ==
    /\ entry = "stats"
    /\ InitStorage
    /\ config = DefaultConfig
    /\ registry = RegistryIdle
    /\ api = ApiIdle
    /\ router = RouterIdle
    /\ loader = LoaderIdle
    /\ singleton = SingletonIdle
    /\ evalrun = EvalIdle
    /\ latency = LatencyIdle
    /\ toxicity = ToxicityIdle
    /\ measure = MeasureIdle
    /\ batch = BatchIdle
    /\ \E sample \in StatsSamples :
         statrun = [StatsIdle EXCEPT !.latencies_ms = sample]
    /\ scorerun = JudgeIdle
    /\ health = HealthIdle
    /\ dash = DashIdle

InitBatch ==
    /\ entry = "batch"
    /\ InitStorage
    /\ config \in BatchConfigs
    /\ registry = RegistryIdle
    /\ api = ApiIdle
    /\ router = RouterIdle
    /\ loader = LoaderIdle
    /\ singleton = SingletonIdle
    /\ evalrun = EvalIdle
    /\ latency = LatencyIdle
    /\ toxicity = ToxicityIdle
    /\ measure = MeasureIdle
    /\ \E input \in BatchInputs :
         batch = [BatchIdle EXCEPT !.exists = input.exists, !.size = input.size]
    /\ statrun = StatsIdle
    /\ scorerun = JudgeIdle
    /\ health = HealthIdle
    /\ dash = DashIdle

\* ------------------------------------- every writer of Evaluation and Metric
\* POST /evaluate/ requests and batch-runner records are the code that
\* writes Evaluation and Metric rows.
InitWriters == InitApi \/ InitBatch

NextWriters == NextApi \/ NextBatch

\* C22: every committed Metric row belongs to a committed Evaluation row.
C22_MetricsReferenceEvaluations ==
    \A m \in db.metrics : \E e \in db.evaluations : e.id = m.evaluation_id

\* C22 witness: a batch record committed its Evaluation with one Metric after
\* the other evaluator raised, and a later step of the record raised.
C22_Witness_PartialRecordCommitted ==
    /\ entry = "batch"
    /\ batch.fault = "evaluation_id"
    /\ Cardinality(db.metrics) = 1
    /\ Cardinality(db.evaluations) = 1

Init ==
    \/ InitDashboard
    \/ InitHealth
    \/ InitJudge
    \/ InitStats
    \/ InitBatch
    \/ InitEvaluator
    \/ InitLatency
    \/ InitToxicity
    \/ InitMeasure
    \/ InitSessionScope
    \/ InitRegistry
    \/ InitApi
    \/ InitRouter
    \/ InitLoader
    \/ InitSingleton

Next ==
    \/ NextDashboard
    \/ NextHealth
    \/ NextJudge
    \/ NextStats
    \/ NextBatch
    \/ NextSessionScope
    \/ NextRegistry
    \/ NextApi
    \/ NextRouter
    \/ NextLoader
    \/ NextSingleton
    \/ NextEvaluator
    \/ NextLatency
    \/ NextToxicity
    \/ NextMeasure

Spec == Init /\ [][Next]_vars

SpecApi == InitApi /\ [][NextApi]_vars

SpecDashboard == InitDashboard /\ [][NextDashboard]_vars

\* The script thread keeps running: a sleep returns, a rerun starts the next
\* run, a run reaches its end.  Nothing obliges the user to act.
SpecDashboardFair == SpecDashboard /\ WF_vars(DashScript)

SpecHealth == InitHealth /\ [][NextHealth]_vars

SpecJudge == InitJudge /\ [][NextJudge]_vars

SpecStats == InitStats /\ [][NextStats]_vars

SpecBatch == InitBatch /\ [][NextBatch]_vars

SpecWriters == InitWriters /\ [][NextWriters]_vars

SpecEvaluator == InitEvaluator /\ [][NextEvaluator]_vars

SpecLatency == InitLatency /\ [][NextLatency]_vars

SpecToxicity == InitToxicity /\ [][NextToxicity]_vars

SpecMeasure == InitMeasure /\ [][NextMeasure]_vars

SpecRouter == InitRouter /\ [][NextRouter]_vars

SpecLoader == InitLoader /\ [][NextLoader]_vars

SpecSingleton == InitSingleton /\ [][NextSingleton]_vars

SpecRegistry == InitRegistry /\ [][NextRegistry]_vars

SpecSessionScope == InitSessionScope /\ [][NextSessionScope]_vars

====
